---- MODULE Spec2Model ----
(***************************************************************************)
(* Movement integrity verification of starkgame: the trace collector       *)
(* (movement_trace.rs), the arithmetizer and its AIR (movement_air.rs),    *)
(* the asynchronous proof pipeline (proof_system.rs) and the Bevy systems  *)
(* of main.rs that compose them into the Playing / CheatDetected state     *)
(* machine.                                                                *)
(*                                                                         *)
(* Units: positions are whole pixels (Position is i32), velocities whole   *)
(* pixels per second (Velocity is i32), time is counted in units of 50 ms, *)
(* so the 0.1 s window of main.rs:99 is 2 units.  Positions of the model   *)
(* stay below 2^27 / 1000 pixels, where the f32 product position * 1000.0  *)
(* of movement_air.rs:140 is exact (1000 is a multiple of 8).              *)
(***************************************************************************)
EXTENDS Integers, Sequences, FiniteSets, TLC

VARIABLES
    gameState,      \* State<GameState>: "Playing" or "CheatDetected"
    nextState,      \* NextState<GameState>: "None" or the state requested
    pc,             \* the system of the Update chain that runs next
    now,            \* Time::elapsed, in units of 50 ms
    frames,         \* frames started so far
    input,          \* ButtonInput<KeyCode> / ButtonInput<MouseButton> of the frame
    position,       \* Position of the player, <<x, y>>
    velocity,       \* Velocity of the player, <<x, y>>
    lastInput,      \* LastInputState of the player
    collector,      \* MovementTraceCollector of the player
    proofGen,       \* ProofGenerator of the player: active_tasks, completed_count, stats
    cheat,          \* the CheatDetected resource: is_active, message
    popup,          \* whether a CheatPopup entity exists
    faults,         \* environment: tasks on which the codec or verify has failed;
                    \* in pipeline runs, the frames that took longer than one unit
    clicks,         \* environment: teleporting clicks so far
    lastAck,        \* history: the time of the last accepted acknowledgement, -1 if none
    ackDropped,     \* history: the tasks the last acknowledgement found in the pipeline
    sealedLog,      \* history: the windows sealed since the last reset, in order
    dispatchLog,    \* history (pipeline runs): the windows handed to a task, in order
    outcomes,       \* history (pipeline runs): the tasks that ran to their end
    airWindow,      \* the window handed to the arithmetizer (arithmetizer runs)
    airResult       \* what the arithmetizer and the backend made of airWindow;
                    \* in checker runs, the matrix under check and the verdict on it

vars == <<gameState, nextState, pc, now, frames, input, position, velocity,
          lastInput, collector, proofGen, cheat, popup, faults, clicks,
          lastAck, ackDropped, sealedLog, dispatchLog, outcomes, airWindow,
          airResult>>

(***************************************************************************)
(* Bounds of the model.                                                    *)
(***************************************************************************)
MaxFrames == 8
MaxDt == 1
MaxFaults == 1
MaxClicks == 1
MaxLatency == 1
MaxAdds == 5
MaxAirLen == 2
MaxPipeAdds == 6
MaxPipeLatency == 2
MaxPipeDt == 2
MaxQueueAdds == 7
MaxQueueDt == 2
MaxEncodeLen == 33
MaxTicks == 2
MaxCheckRows == 2

(***************************************************************************)
(* Program constants.                                                      *)
(***************************************************************************)
MovementSpeed == 200
VelocityOffset == 1000
PhysicsFactor == 15
PositionScale == 1000
PositionBias == 50000000
PositionModulus == 100000000
VelocityModulus == 2000
MinTraceHeight == 8
TraceDuration == 2
MaxCompletedTraces == 5
DeltaTimeMs == 16
FieldOrder == 2013265921
MovementDivisor == 1000
SpaceMultiplier == 2
ShiftMultiplier == 3

NoTrace == [none |-> TRUE]

(***************************************************************************)
(* Arithmetic of the BabyBear field on canonical representatives 0..p-1,   *)
(* written so that no intermediate value leaves 32 bits.                   *)
(***************************************************************************)
FAdd(a, b) == IF a >= FieldOrder - b THEN a - (FieldOrder - b) ELSE a + b

FSub(a, b) == IF a >= b THEN a - b ELSE a + (FieldOrder - b)

RECURSIVE FMul(_, _)
FMul(a, c) ==
    IF c = 0 THEN 0
    ELSE LET h == FMul(a, c \div 2)
             d == FAdd(h, h)
         IN  IF c % 2 = 1 THEN FAdd(d, a) ELSE d

\* builder.assert_bool(x): x * (x - 1) = 0, which in a field is x = 0 or x = 1
AssertBool(x) == x = 0 \/ x = 1

(***************************************************************************)
(* Rust casts and integer division.                                        *)
(***************************************************************************)
RECURSIVE PowMod(_, _)
PowMod(k, m) == IF k = 0 THEN 1 % m ELSE (2 * PowMod(k - 1, m)) % m

\* (x as u64) % m for an i64 x: a negative x wraps to 2^64 + x
AsU64Mod(x, m) == IF x >= 0 THEN x % m ELSE (PowMod(64, m) + (x % m)) % m

\* a / b of Rust on i32, b > 0: rounds toward zero
TruncDiv(a, b) == IF a >= 0 THEN a \div b ELSE -((-a) \div b)

BoolBit(b) == IF b THEN 1 ELSE 0

(***************************************************************************)
(* movement_air.rs: the trace matrix.                                      *)
(***************************************************************************)
\* the position encoding without the bias
EncodePositionNoBias(p) == AsU64Mod(p * PositionScale, PositionModulus)

EncodePosition(p) == AsU64Mod(p * PositionScale + PositionBias, PositionModulus)

EncodeVelocity(v) == AsU64Mod(v + VelocityOffset, VelocityModulus)

EncodeRow(step) ==
    [position_x  |-> EncodePosition(step.position[1]),
     position_y  |-> EncodePosition(step.position[2]),
     velocity_x  |-> EncodeVelocity(step.velocity[1]),
     velocity_y  |-> EncodeVelocity(step.velocity[2]),
     input_left  |-> BoolBit(step.inputs.left),
     input_right |-> BoolBit(step.inputs.right),
     input_up    |-> BoolBit(step.inputs.up),
     input_down  |-> BoolBit(step.inputs.down)]

\* padding that repeats the whole last row, velocity and flags included
PaddingRowRepeatsLastRow(last_step) == EncodeRow(last_step)

\* padding at the encoded origin
PaddingRowAtOrigin(last_step) ==
    [position_x  |-> EncodePosition(0),
     position_y  |-> EncodePosition(0),
     velocity_x  |-> VelocityOffset,
     velocity_y  |-> VelocityOffset,
     input_left  |-> 0, input_right |-> 0, input_up |-> 0, input_down |-> 0]

\* padding with rows of zeros
PaddingRowOfZeros(last_step) ==
    [position_x |-> 0, position_y |-> 0, velocity_x |-> 0, velocity_y |-> 0,
     input_left |-> 0, input_right |-> 0, input_up |-> 0, input_down |-> 0]

PaddingRow(last_step) ==
    [position_x  |-> EncodePosition(last_step.position[1]),
     position_y  |-> EncodePosition(last_step.position[2]),
     velocity_x  |-> VelocityOffset,
     velocity_y  |-> VelocityOffset,
     input_left  |-> 0, input_right |-> 0, input_up |-> 0, input_down |-> 0]

ZeroRow ==
    [position_x |-> 0, position_y |-> 0, velocity_x |-> 0, velocity_y |-> 0,
     input_left |-> 0, input_right |-> 0, input_up |-> 0, input_down |-> 0]

\* the loop of next_power_of_2 with <= in place of <
RECURSIVE NextPowerOf2FromPast(_, _)
NextPowerOf2FromPast(power, n) ==
    IF power <= n THEN NextPowerOf2FromPast(2 * power, n) ELSE power

RECURSIVE NextPowerOf2From(_, _)
NextPowerOf2From(power, n) ==
    IF power < n THEN NextPowerOf2From(2 * power, n) ELSE power

NextPowerOf2(n) == IF n = 0 THEN 1 ELSE NextPowerOf2From(1, n)

IsPowerOfTwo(n) == n >= 1 /\ NextPowerOf2(n) = n

Max(a, b) == IF a >= b THEN a ELSE b

TargetHeight(trace) == NextPowerOf2(Max(Len(trace.steps), MinTraceHeight))

\* the origin check of the first window after a reset
OriginViolated(trace) ==
    /\ trace.is_first_trace_after_reset
    /\ Len(trace.steps) > 0
    /\ \/ trace.steps[1].position # <<0, 0>>
       \/ trace.steps[1].velocity # <<0, 0>>

\* generate_movement_trace_matrix: [panicked, rows_encoded, rows]
GenerateMatrixNoOriginCheck(trace, target_height) ==
    IF ~IsPowerOfTwo(target_height) \/ Len(trace.steps) > target_height
    THEN [panicked |-> TRUE, rows_encoded |-> 0, rows |-> <<>>]
    ELSE [panicked |-> FALSE,
          rows_encoded |-> Len(trace.steps),
          rows |-> [i \in 1..target_height |->
                      IF i <= Len(trace.steps) THEN EncodeRow(trace.steps[i])
                      ELSE IF Len(trace.steps) > 0
                           THEN PaddingRow(trace.steps[Len(trace.steps)])
                           ELSE ZeroRow]]

GenerateMatrix(trace, target_height) ==
    IF ~IsPowerOfTwo(target_height) \/ Len(trace.steps) > target_height
    THEN [panicked |-> TRUE, rows_encoded |-> 0, rows |-> <<>>]
    ELSE IF OriginViolated(trace)
    THEN [panicked |-> TRUE, rows_encoded |-> 0, rows |-> <<>>]
    ELSE [panicked |-> FALSE,
          rows_encoded |-> Len(trace.steps),
          rows |-> [i \in 1..target_height |->
                      IF i <= Len(trace.steps) THEN EncodeRow(trace.steps[i])
                      ELSE IF Len(trace.steps) > 0
                           THEN PaddingRow(trace.steps[Len(trace.steps)])
                           ELSE ZeroRow]]

(***************************************************************************)
(* movement_air.rs: the constraints of MovementAir::eval on one pair of    *)
(* rows; is_transition is false on the last row only (when_transition).    *)
(***************************************************************************)
BooleanConstraint(local) ==
    /\ AssertBool(local.input_left)
    /\ AssertBool(local.input_right)
    /\ AssertBool(local.input_up)
    /\ AssertBool(local.input_down)

\* the expected velocity with left and right exchanged
ExpectedVelXMirrored(local) ==
    FAdd(FMul(FSub(local.input_left, local.input_right), MovementSpeed),
         VelocityOffset)

ExpectedVelX(local) ==
    FAdd(FMul(FSub(local.input_right, local.input_left), MovementSpeed),
         VelocityOffset)

ExpectedVelY(local) ==
    FAdd(FMul(FSub(local.input_up, local.input_down), MovementSpeed),
         VelocityOffset)

\* the velocity constraint on the x axis alone
VelocityConstraintXOnly(local) == local.velocity_x = ExpectedVelX(local)

VelocityConstraint(local) ==
    /\ local.velocity_x = ExpectedVelX(local)
    /\ local.velocity_y = ExpectedVelY(local)

TransitionConstraint(local, next) ==
    /\ next.position_x =
         FAdd(local.position_x,
              FMul(FSub(next.velocity_x, VelocityOffset), PhysicsFactor))
    /\ next.position_y =
         FAdd(local.position_y,
              FMul(FSub(next.velocity_y, VelocityOffset), PhysicsFactor))

Eval(local, next, is_transition) ==
    /\ BooleanConstraint(local)
    /\ VelocityConstraint(local)
    /\ is_transition => TransitionConstraint(local, next)

\* the backend's constraint check inside prove: eval on every row with the
\* next row taken cyclically, the transition selector off on the last row
AirAccepts(rows) ==
    \A i \in 1..Len(rows) :
        Eval(rows[i], rows[(i % Len(rows)) + 1], i # Len(rows))

(***************************************************************************)
(* check_constraints.rs: check_movement_constraints, which walks the rows  *)
(* in order and stops at the first violation: Err for a flag that is not   *)
(* boolean, a panic for a velocity or a position violation, Ok at the end. *)
(* row_index counts from 0 as in the source.                               *)
(***************************************************************************)
\* the loop with the position check made on the last row as well
RECURSIVE CheckFromWithWraparound(_, _)
CheckFromWithWraparound(rows, row_index) ==
    LET height == Len(rows)
    IN  IF row_index >= height THEN "ok"
        ELSE
          LET local == rows[row_index + 1]
              next == rows[((row_index + 1) % height) + 1]
              expected_vel_x ==
                  FAdd(FMul(FSub(local.input_right, local.input_left), 200), 1000)
              expected_vel_y ==
                  FAdd(FMul(FSub(local.input_up, local.input_down), 200), 1000)
              expected_next_x ==
                  FAdd(local.position_x, FMul(FSub(next.velocity_x, 1000), 15))
              expected_next_y ==
                  FAdd(local.position_y, FMul(FSub(next.velocity_y, 1000), 15))
          IN  IF local.input_left # 0 /\ local.input_left # 1 THEN "err"
              ELSE IF local.input_right # 0 /\ local.input_right # 1 THEN "err"
              ELSE IF local.input_up # 0 /\ local.input_up # 1 THEN "err"
              ELSE IF local.input_down # 0 /\ local.input_down # 1 THEN "err"
              ELSE IF local.velocity_x # expected_vel_x THEN "panic"
              ELSE IF local.velocity_y # expected_vel_y THEN "panic"
              ELSE IF next.position_x # expected_next_x THEN "panic"
              ELSE IF next.position_y # expected_next_y THEN "panic"
              ELSE CheckFromWithWraparound(rows, row_index + 1)

RECURSIVE CheckFrom(_, _)
CheckFrom(rows, row_index) ==
    LET height == Len(rows)
    IN  IF row_index >= height THEN "ok"
        ELSE
          LET local == rows[row_index + 1]
              next == rows[((row_index + 1) % height) + 1]
              expected_vel_x ==
                  FAdd(FMul(FSub(local.input_right, local.input_left), 200), 1000)
              expected_vel_y ==
                  FAdd(FMul(FSub(local.input_up, local.input_down), 200), 1000)
              expected_next_x ==
                  FAdd(local.position_x, FMul(FSub(next.velocity_x, 1000), 15))
              expected_next_y ==
                  FAdd(local.position_y, FMul(FSub(next.velocity_y, 1000), 15))
          IN  IF local.input_left # 0 /\ local.input_left # 1 THEN "err"
              ELSE IF local.input_right # 0 /\ local.input_right # 1 THEN "err"
              ELSE IF local.input_up # 0 /\ local.input_up # 1 THEN "err"
              ELSE IF local.input_down # 0 /\ local.input_down # 1 THEN "err"
              ELSE IF local.velocity_x # expected_vel_x THEN "panic"
              ELSE IF local.velocity_y # expected_vel_y THEN "panic"
              ELSE IF row_index # height - 1 /\ next.position_x # expected_next_x
                   THEN "panic"
              ELSE IF row_index # height - 1 /\ next.position_y # expected_next_y
                   THEN "panic"
              ELSE CheckFrom(rows, row_index + 1)

CheckMovementConstraints(rows) == CheckFrom(rows, 0)

(***************************************************************************)
(* movement_trace.rs: MovementTrace and MovementTraceCollector.  The       *)
(* first-after-reset flag (is_first_trace_after_reset, read by             *)
(* movement_air.rs:132, and mark_next_trace_as_first_after_reset, called   *)
(* by main.rs:340) is not part of movement_trace.rs as given; it follows   *)
(* the specification: mark_reset flags the next newly started window.      *)
(***************************************************************************)
MovementStep(pos, vel, inputs, timestamp) ==
    [position |-> pos, velocity |-> vel, inputs |-> inputs,
     timestamp |-> timestamp, delta_time |-> DeltaTimeMs]

MovementTraceNew(start_time, first_after_reset) ==
    [steps |-> <<>>, start_time |-> start_time, duration |-> 0,
     is_first_trace_after_reset |-> first_after_reset]

AddStep(trace, step) ==
    [trace EXCEPT !.duration = step.timestamp - trace.start_time,
                  !.steps = Append(@, step)]

\* is_complete against a threshold of zero
IsCompleteAtZero(trace, target_duration) == trace.duration >= 0

\* is_complete with > in place of >=
IsCompleteStrict(trace, target_duration) == trace.duration > target_duration

IsComplete(trace, target_duration) == trace.duration >= target_duration

CollectorNew ==
    [current_trace |-> NoTrace, completed_traces |-> <<>>,
     next_is_first_after_reset |-> FALSE]

MarkNextTraceAsFirstAfterReset(c) ==
    [c EXCEPT !.next_is_first_after_reset = TRUE]

\* the flag the next started window gets, and the collector's flag after it
TakeResetFlag(c) == c.next_is_first_after_reset

\* start_new_trace leaving the collector's mark in place
StartNewTraceKeepsMark(c, timestamp) ==
    [c EXCEPT !.current_trace = MovementTraceNew(timestamp, TakeResetFlag(c))]

StartNewTrace(c, timestamp) ==
    [c EXCEPT !.current_trace = MovementTraceNew(timestamp, TakeResetFlag(c)),
              !.next_is_first_after_reset = FALSE]

\* the queue cut to its bound from the back
DropNewest(queue, bound) ==
    IF Len(queue) > bound THEN SubSeq(queue, 1, bound) ELSE queue

RECURSIVE DropOldest(_, _)
DropOldest(queue, bound) ==
    IF Len(queue) > bound THEN DropOldest(Tail(queue), bound) ELSE queue

CompleteCurrentTrace(c) ==
    IF c.current_trace = NoTrace THEN c
    ELSE [c EXCEPT !.current_trace = NoTrace,
                   !.completed_traces =
                       DropOldest(Append(@, c.current_trace), MaxCompletedTraces)]

\* add_movement up to trace.add_step(step): start a window if there is none
AppendToCurrent(c, step) ==
    LET c1 == IF c.current_trace = NoTrace
              THEN StartNewTrace(c, step.timestamp) ELSE c
    IN  [c1 EXCEPT !.current_trace = AddStep(@, step)]

AddMovementNoContinuation(c, pos, vel, inputs, timestamp) ==
    LET step == MovementStep(pos, vel, inputs, timestamp)
        c2 == AppendToCurrent(c, step)
    IN  IF IsComplete(c2.current_trace, TraceDuration)
        THEN CompleteCurrentTrace(c2)
        ELSE c2

AddMovement(c, pos, vel, inputs, timestamp) ==
    LET step == MovementStep(pos, vel, inputs, timestamp)
        c2 == AppendToCurrent(c, step)
    IN  IF IsComplete(c2.current_trace, TraceDuration)
        THEN [StartNewTrace(CompleteCurrentTrace(c2), timestamp)
                 EXCEPT !.current_trace = AddStep(@, step)]
        ELSE c2

\* history: the window this add_movement call seals, if it seals one
SealedWindows(c, pos, vel, inputs, timestamp) ==
    LET c2 == AppendToCurrent(c, MovementStep(pos, vel, inputs, timestamp))
    IN  IF IsComplete(c2.current_trace, TraceDuration)
        THEN <<c2.current_trace>> ELSE <<>>

\* pop_back in place of pop_front
GetNewestTraceForProving(c) ==
    IF c.completed_traces = <<>>
    THEN [trace |-> NoTrace, collector |-> c]
    ELSE [trace |-> c.completed_traces[Len(c.completed_traces)],
          collector |-> [c EXCEPT !.completed_traces =
                                      SubSeq(@, 1, Len(@) - 1)]]

GetNextTraceForProving(c) ==
    IF c.completed_traces = <<>>
    THEN [trace |-> NoTrace, collector |-> c]
    ELSE [trace |-> Head(c.completed_traces),
          collector |-> [c EXCEPT !.completed_traces = Tail(@)]]

\* the queue emptied, the unsealed window kept
ClearTracesKeepsCurrent(c) == [c EXCEPT !.completed_traces = <<>>]

\* main.rs:264-265 and main.rs:337-338: drop the unsealed and the queued windows
ClearTraces(c) == [c EXCEPT !.current_trace = NoTrace, !.completed_traces = <<>>]

(***************************************************************************)
(* proof_system.rs: the proof task.  The backend (p3_uni_stark prove and   *)
(* verify, bincode) is external: prove fails abruptly exactly when the     *)
(* matrix violates the AIR (proof_system.rs:230), and the codec and verify *)
(* may each fail, which the environment chooses (backend).                 *)
(***************************************************************************)
Backends == {"sound", "serialize_fails", "deserialize_fails", "verify_rejects"}

CheatPrefix == "CHEAT_DETECTED:"

ErrConstraint == [prefix |-> CheatPrefix,
                  text |-> "Constraint violation during proof generation"]
ErrSerialize == [prefix |-> "", text |-> "Proof serialization failed"]
ErrInvalid == [prefix |-> CheatPrefix, text |-> "Invalid proof"]
ErrCorrupted == [prefix |-> CheatPrefix, text |-> "Corrupted proof"]
NoError == [prefix |-> "", text |-> ""]

StartsWithCheatDetected(e) == e.prefix = CheatPrefix

\* prove(&config, &air, trace_matrix, &vec![]): a proof, or an abrupt failure
Prove(rows) == IF AirAccepts(rows) THEN "proof" ELSE "panic"

\* what a task leaves in its handle: escaped is a panic that left the task
TaskOutput(escaped, ok, error, verification_time_ms, prove_called, verify_called) ==
    [escaped |-> escaped, ok |-> ok, error |-> error,
     verification_time_ms |-> verification_time_ms,
     prove_called |-> prove_called, verify_called |-> verify_called]

GenerateProofAsyncNoCatchUnwind(trace, backend, verification_time) ==
    LET matrix == GenerateMatrix(trace, TargetHeight(trace))
    IN  IF matrix.panicked
        THEN TaskOutput(TRUE, FALSE, NoError, 0, FALSE, FALSE)
        ELSE IF Prove(matrix.rows) = "panic"
        THEN TaskOutput(TRUE, FALSE, NoError, 0, TRUE, FALSE)
        ELSE IF backend = "serialize_fails"
        THEN TaskOutput(FALSE, FALSE, ErrSerialize, 0, TRUE, FALSE)
        ELSE IF backend = "deserialize_fails"
        THEN TaskOutput(FALSE, FALSE, ErrCorrupted, verification_time, TRUE, FALSE)
        ELSE IF backend = "verify_rejects"
        THEN TaskOutput(FALSE, FALSE, ErrInvalid, verification_time, TRUE, TRUE)
        ELSE TaskOutput(FALSE, TRUE, NoError, verification_time, TRUE, TRUE)

GenerateProofAsync(trace, backend, verification_time) ==
    LET matrix == GenerateMatrix(trace, TargetHeight(trace))
    IN  IF matrix.panicked
        THEN TaskOutput(TRUE, FALSE, NoError, 0, FALSE, FALSE)
        ELSE IF Prove(matrix.rows) = "panic"
        THEN TaskOutput(FALSE, FALSE, ErrConstraint, 0, TRUE, FALSE)
        ELSE IF backend = "serialize_fails"
        THEN TaskOutput(FALSE, FALSE, ErrSerialize, 0, TRUE, FALSE)
        ELSE IF backend = "deserialize_fails"
        THEN TaskOutput(FALSE, FALSE, ErrCorrupted, verification_time, TRUE, FALSE)
        ELSE IF backend = "verify_rejects"
        THEN TaskOutput(FALSE, FALSE, ErrInvalid, verification_time, TRUE, TRUE)
        ELSE TaskOutput(FALSE, TRUE, NoError, verification_time, TRUE, TRUE)

NoOutput == [none |-> TRUE]

\* task_pool.spawn(async move { ... }): the handle kept in active_tasks
SpawnTask(trace) ==
    [trace |-> trace, done |-> FALSE, output |-> NoOutput, generation_time_ms |-> 0]

\* the spawned future run to its end
RunTask(task, backend, generation_time, verification_time) ==
    [task EXCEPT !.done = TRUE,
                 !.output = GenerateProofAsync(task.trace, backend, verification_time),
                 !.generation_time_ms = generation_time]

(***************************************************************************)
(* proof_system.rs: ProofGenerator and proof_generation_system.            *)
(***************************************************************************)
ProofStatsDefault ==
    [total_proofs_generated |-> 0, total_generation_time_ms |-> 0,
     total_verification_time_ms |-> 0, successful_verifications |-> 0,
     failed_verifications |-> 0]

ProofGeneratorDefault ==
    [active_tasks |-> <<>>, completed_count |-> 0, stats |-> ProofStatsDefault]

\* the submit loop spawning two tasks for each window
RECURSIVE SubmitAllSpawnsTwice(_, _)
SubmitAllSpawnsTwice(c, tasks) ==
    LET got == GetNextTraceForProving(c)
    IN  IF got.trace = NoTrace THEN [collector |-> c, active_tasks |-> tasks]
        ELSE SubmitAllSpawnsTwice(got.collector,
                       IF Len(got.trace.steps) > 1
                       THEN tasks \o <<SpawnTask(got.trace), SpawnTask(got.trace)>>
                       ELSE tasks)

\* the submit loop spawning a task for windows of more than two steps only
RECURSIVE SubmitAllSkipsTwoSteps(_, _)
SubmitAllSkipsTwoSteps(c, tasks) ==
    LET got == GetNextTraceForProving(c)
    IN  IF got.trace = NoTrace THEN [collector |-> c, active_tasks |-> tasks]
        ELSE SubmitAllSkipsTwoSteps(got.collector,
                       IF Len(got.trace.steps) > 2
                       THEN Append(tasks, SpawnTask(got.trace))
                       ELSE tasks)

\* the while-let loop of lines 137-173: pop every sealed window, spawn a
\* task for each window of more than one step
RECURSIVE SubmitAll(_, _)
SubmitAll(c, tasks) ==
    LET got == GetNextTraceForProving(c)
    IN  IF got.trace = NoTrace THEN [collector |-> c, active_tasks |-> tasks]
        ELSE SubmitAll(got.collector,
                       IF Len(got.trace.steps) > 1
                       THEN Append(tasks, SpawnTask(got.trace))
                       ELSE tasks)

\* the match with a failure counted as a generated proof as well
AccountResultCountsFailureAsProof(pg, task) ==
    IF task.output.ok
    THEN [pg EXCEPT
            !.stats.total_proofs_generated = @ + 1,
            !.stats.total_generation_time_ms = @ + task.generation_time_ms,
            !.stats.total_verification_time_ms = @ + task.output.verification_time_ms,
            !.stats.successful_verifications = @ + 1,
            !.completed_count = @ + 1]
    ELSE [pg EXCEPT !.stats.failed_verifications = @ + 1,
                    !.stats.total_proofs_generated = @ + 1]

\* the match with the latencies of a failure added to the totals
AccountResultAddsFailureLatency(pg, task) ==
    IF task.output.ok
    THEN [pg EXCEPT
            !.stats.total_proofs_generated = @ + 1,
            !.stats.total_generation_time_ms = @ + task.generation_time_ms,
            !.stats.total_verification_time_ms = @ + task.output.verification_time_ms,
            !.stats.successful_verifications = @ + 1,
            !.completed_count = @ + 1]
    ELSE [pg EXCEPT
            !.stats.failed_verifications = @ + 1,
            !.stats.total_generation_time_ms = @ + task.generation_time_ms,
            !.stats.total_verification_time_ms = @ + task.output.verification_time_ms]

\* the match of lines 182-208 on one finished task
AccountResult(pg, task) ==
    IF task.output.ok
    THEN [pg EXCEPT
            !.stats.total_proofs_generated = @ + 1,
            !.stats.total_generation_time_ms = @ + task.generation_time_ms,
            !.stats.total_verification_time_ms = @ + task.output.verification_time_ms,
            !.stats.successful_verifications = @ + 1,
            !.completed_count = @ + 1]
    ELSE [pg EXCEPT !.stats.failed_verifications = @ + 1]

\* the poll loop with the index advanced after a removal as well
RECURSIVE PollFromAdvancesAfterRemoval(_, _, _)
PollFromAdvancesAfterRemoval(pg, i, insert_cheat) ==
    IF i > Len(pg.active_tasks)
    THEN [pg |-> pg, insert_cheat |-> insert_cheat, panicked |-> FALSE]
    ELSE LET task == pg.active_tasks[i]
         IN  IF ~task.done THEN PollFromAdvancesAfterRemoval(pg, i + 1, insert_cheat)
             ELSE IF task.output.escaped
             THEN [pg |-> pg, insert_cheat |-> insert_cheat, panicked |-> TRUE]
             ELSE LET removed ==
                        [pg EXCEPT !.active_tasks =
                            SubSeq(@, 1, i - 1) \o SubSeq(@, i + 1, Len(@))]
                  IN  PollFromAdvancesAfterRemoval(
                          AccountResult(removed, task), i + 1,
                          insert_cheat \/
                            (~task.output.ok
                               /\ StartsWithCheatDetected(task.output.error)))

\* the poll loop of lines 176-212 from index i on: [pg, insert_cheat, panicked];
\* polling a task whose future panicked panics the polling system
RECURSIVE PollFrom(_, _, _)
PollFrom(pg, i, insert_cheat) ==
    IF i > Len(pg.active_tasks)
    THEN [pg |-> pg, insert_cheat |-> insert_cheat, panicked |-> FALSE]
    ELSE LET task == pg.active_tasks[i]
         IN  IF ~task.done THEN PollFrom(pg, i + 1, insert_cheat)
             ELSE IF task.output.escaped
             THEN [pg |-> pg, insert_cheat |-> insert_cheat, panicked |-> TRUE]
             ELSE LET removed ==
                        [pg EXCEPT !.active_tasks =
                            SubSeq(@, 1, i - 1) \o SubSeq(@, i + 1, Len(@))]
                  IN  PollFrom(AccountResult(removed, task), i,
                               insert_cheat \/
                                 (~task.output.ok
                                    /\ StartsWithCheatDetected(task.output.error)))

(***************************************************************************)
(* main.rs: the player systems.  keys is the frame's ButtonInput state:    *)
(* the direction keys, the three speed keys, Escape (just_pressed) and the *)
(* world position of a left click (<<>> when there is none).               *)
(***************************************************************************)
NoKeys ==
    [left |-> FALSE, right |-> FALSE, up |-> FALSE, down |-> FALSE,
     shift |-> FALSE, space |-> FALSE, ctrl |-> FALSE, esc |-> FALSE,
     click |-> <<>>]

ClickTarget == <<40, 0>>

\* the inputs a frame of the composed runs may see
FrameInputs ==
    { NoKeys,
      [NoKeys EXCEPT !.right = TRUE],
      [NoKeys EXCEPT !.click = <<ClickTarget>>],
      [NoKeys EXCEPT !.esc = TRUE] }

\* player_input with left set after right and up after down
PlayerInputLeftWins(keys) ==
    << IF keys.left THEN -MovementSpeed
       ELSE IF keys.right THEN MovementSpeed ELSE 0,
       IF keys.up THEN MovementSpeed
       ELSE IF keys.down THEN -MovementSpeed ELSE 0 >>

PlayerInput(keys) ==
    << IF keys.right THEN MovementSpeed
       ELSE IF keys.left THEN -MovementSpeed ELSE 0,
       IF keys.down THEN -MovementSpeed
       ELSE IF keys.up THEN MovementSpeed ELSE 0 >>

MouseTeleport(pos, keys) == IF keys.click # <<>> THEN keys.click[1] ELSE pos

SpeedControl(vel, keys) ==
    LET m1 == IF keys.shift THEN ShiftMultiplier ELSE 1
        v1 == IF keys.space /\ vel # <<0, 0>>
              THEN <<vel[1] * SpaceMultiplier, vel[2] * SpaceMultiplier>>
              ELSE vel
        m2 == IF keys.ctrl THEN 0 ELSE m1
    IN  IF m2 # 1 THEN <<v1[1] * m2, v1[2] * m2>> ELSE v1

UpdateInputState(keys) ==
    [left |-> keys.left /\ ~keys.right, right |-> keys.right,
     up |-> keys.up /\ ~keys.down, down |-> keys.down]

MovementSystem(pos, vel) ==
    << pos[1] + TruncDiv(vel[1] * PhysicsFactor, MovementDivisor),
       pos[2] + TruncDiv(vel[2] * PhysicsFactor, MovementDivisor) >>

LastInputDefault == [left |-> FALSE, right |-> FALSE, up |-> FALSE, down |-> FALSE]

CheatDefault == [is_active |-> FALSE, message |-> ""]

CheatMessage == "CHEATER DETECTED! Invalid proof verification failed! Press ESC to continue"

CheatRaised == [is_active |-> TRUE, message |-> CheatMessage]

(***************************************************************************)
(* main.rs:68-81: the Update chain.  The chain orders the systems; a       *)
(* system with a run_if(in_state(..)) condition is skipped in the other    *)
(* state.  State<GameState> changes only in the StateTransition schedule,  *)
(* which runs before Update and applies what NextState holds.  Commands    *)
(* queued by a system of the chain are applied at the sync point the chain *)
(* puts after it, before the next system of the chain runs.                *)
(***************************************************************************)
Systems ==
    << "player_input", "mouse_teleport", "speed_control", "update_input",
       "movement", "collect", "proof", "detect", "popup", "dismiss" >>

\* the chain with a run_if condition left out: of proof_generation_system,
\* of movement_system and movement_trace_collection_system, of
\* dismiss_cheat_popup_system
RunsInProofAlways(system, state) ==
    CASE system \in {"player_input", "mouse_teleport", "speed_control",
                     "update_input", "movement", "collect"}
             -> state = "Playing"
      [] system \in {"proof", "detect"} -> TRUE
      [] system \in {"popup", "dismiss"} -> state = "CheatDetected"

RunsInMovementAlways(system, state) ==
    CASE system \in {"player_input", "mouse_teleport", "speed_control",
                     "update_input", "proof"}
             -> state = "Playing"
      [] system \in {"movement", "collect", "detect"} -> TRUE
      [] system \in {"popup", "dismiss"} -> state = "CheatDetected"

RunsInDismissAlways(system, state) ==
    CASE system \in {"player_input", "mouse_teleport", "speed_control",
                     "update_input", "movement", "collect", "proof"}
             -> state = "Playing"
      [] system \in {"detect", "dismiss"} -> TRUE
      [] system = "popup" -> state = "CheatDetected"

\* the chain with the run_if condition of movement_trace_collection_system
\* alone left out
RunsInCollectAlways(system, state) ==
    CASE system \in {"player_input", "mouse_teleport", "speed_control",
                     "update_input", "movement", "proof"}
             -> state = "Playing"
      [] system \in {"collect", "detect"} -> TRUE
      [] system \in {"popup", "dismiss"} -> state = "CheatDetected"

RunsIn(system, state) ==
    CASE system \in {"player_input", "mouse_teleport", "speed_control",
                     "update_input", "movement", "collect", "proof"}
             -> state = "Playing"
      [] system = "detect" -> TRUE
      [] system \in {"popup", "dismiss"} -> state = "CheatDetected"

RECURSIVE FirstRunnableFrom(_, _)
FirstRunnableFrom(i, state) ==
    IF i > Len(Systems) THEN "frame"
    ELSE IF RunsIn(Systems[i], state) THEN Systems[i]
    ELSE FirstRunnableFrom(i + 1, state)

IndexOf(system) == CHOOSE i \in 1..Len(Systems) : Systems[i] = system

\* the system that runs after `system` in this frame, "frame" when none does
After(system, state) == FirstRunnableFrom(IndexOf(system) + 1, state)

\* the sync point after proof_generation_system: commands.insert_resource
ApplyDeferred(resource, insert_cheat) ==
    IF insert_cheat THEN CheatRaised ELSE resource

\* dismiss_cheat_popup_system: the condition under which Escape is accepted
AckAcceptedWithoutKey(keys, resource) == resource.is_active

AckAccepted(keys, resource) == keys.esc /\ resource.is_active

\* dismiss_cheat_popup_system: what it leaves of the proof generator
ResetKeepsTasks(pg) ==
    [pg EXCEPT !.completed_count = 0, !.stats = ProofStatsDefault]

ResetKeepsCounters(pg) == [pg EXCEPT !.active_tasks = <<>>]

ResetProofGenerator(pg) ==
    [pg EXCEPT !.active_tasks = <<>>, !.completed_count = 0,
               !.stats = ProofStatsDefault]

\* the input of a frame is gone when the frame ends: the next frame reads anew
InputAfter(next_pc) == IF next_pc = "frame" THEN NoKeys ELSE input

Init ==
    /\ gameState = "Playing"
    /\ nextState = "None"
    /\ pc = "frame"
    /\ now = 0
    /\ frames = 0
    /\ input = NoKeys
    /\ position = <<0, 0>>
    /\ velocity = <<0, 0>>
    /\ lastInput = LastInputDefault
    /\ collector = CollectorNew
    /\ proofGen = ProofGeneratorDefault
    /\ cheat = CheatDefault
    /\ popup = FALSE
    /\ faults = 0
    /\ clicks = 0
    /\ lastAck = -1
    /\ ackDropped = 0
    /\ sealedLog = <<>>
    /\ dispatchLog = <<>>
    /\ outcomes = {}
    /\ airWindow = NoTrace
    /\ airResult = NoOutput

\* a frame starts: the clock advances, the input is read, StateTransition
\* applies the requested state, and the first system of the chain is due
BeginFrame ==
    /\ pc = "frame"
    /\ frames < MaxFrames
    /\ \E dt \in 1..MaxDt, keys \in FrameInputs :
         /\ keys.click # <<>> => clicks < MaxClicks
         /\ now' = now + dt
         /\ input' = keys
         /\ clicks' = IF keys.click # <<>> THEN clicks + 1 ELSE clicks
    /\ frames' = frames + 1
    /\ gameState' = IF nextState # "None" THEN nextState ELSE gameState
    /\ nextState' = "None"
    /\ pc' = FirstRunnableFrom(1, gameState')
    /\ UNCHANGED <<position, velocity, lastInput, collector, proofGen, cheat,
                   popup, faults, lastAck, ackDropped, sealedLog, airWindow,
                   airResult,
                   dispatchLog, outcomes>>

\* a proof task runs to its end on the task pool; the backend is sound on it,
\* or its codec or verify fails (on at most MaxFaults tasks of a run).  A
\* task's handle is read by the poll of proof_generation_system and dropped
\* by dismiss_cheat_popup_system only, so a task that finishes at any time
\* is one that finishes right before one of the two runs.
TaskFinishes ==
    /\ pc \in {"proof", "dismiss"}
    /\ \E i \in 1..Len(proofGen.active_tasks),
          backend \in Backends,
          generation_time \in 1..MaxLatency,
          verification_time \in 1..MaxLatency :
         /\ ~proofGen.active_tasks[i].done
         /\ backend # "sound" => faults < MaxFaults
         /\ proofGen' = [proofGen EXCEPT !.active_tasks[i] =
                           RunTask(@, backend, generation_time, verification_time)]
         /\ faults' = IF backend # "sound" THEN faults + 1 ELSE faults
    /\ UNCHANGED <<gameState, nextState, pc, now, frames, input, position,
                   velocity, lastInput, collector, cheat, popup, clicks, lastAck,
                   ackDropped, sealedLog, airWindow, airResult,
                   dispatchLog, outcomes>>

PlayerInputSystem ==
    /\ pc = "player_input"
    /\ velocity' = PlayerInput(input)
    /\ pc' = After("player_input", gameState)
    /\ UNCHANGED <<gameState, nextState, now, frames, input, position, lastInput,
                   collector, proofGen, cheat, popup, faults, clicks, lastAck, ackDropped,
                   sealedLog, airWindow, airResult,
                   dispatchLog, outcomes>>

MouseTeleportSystem ==
    /\ pc = "mouse_teleport"
    /\ position' = MouseTeleport(position, input)
    /\ pc' = After("mouse_teleport", gameState)
    /\ UNCHANGED <<gameState, nextState, now, frames, input, velocity, lastInput,
                   collector, proofGen, cheat, popup, faults, clicks, lastAck, ackDropped,
                   sealedLog, airWindow, airResult,
                   dispatchLog, outcomes>>

SpeedControlSystem ==
    /\ pc = "speed_control"
    /\ velocity' = SpeedControl(velocity, input)
    /\ pc' = After("speed_control", gameState)
    /\ UNCHANGED <<gameState, nextState, now, frames, input, position, lastInput,
                   collector, proofGen, cheat, popup, faults, clicks, lastAck, ackDropped,
                   sealedLog, airWindow, airResult,
                   dispatchLog, outcomes>>

UpdateInputStateSystem ==
    /\ pc = "update_input"
    /\ lastInput' = UpdateInputState(input)
    /\ pc' = After("update_input", gameState)
    /\ UNCHANGED <<gameState, nextState, now, frames, input, position, velocity,
                   collector, proofGen, cheat, popup, faults, clicks, lastAck, ackDropped,
                   sealedLog, airWindow, airResult,
                   dispatchLog, outcomes>>

MovementSystemRuns ==
    /\ pc = "movement"
    /\ position' = MovementSystem(position, velocity)
    /\ pc' = After("movement", gameState)
    /\ UNCHANGED <<gameState, nextState, now, frames, input, velocity, lastInput,
                   collector, proofGen, cheat, popup, faults, clicks, lastAck, ackDropped,
                   sealedLog, airWindow, airResult,
                   dispatchLog, outcomes>>

MovementTraceCollectionSystem ==
    /\ pc = "collect"
    /\ collector' = AddMovement(collector, position, velocity, lastInput, now)
    /\ pc' = After("collect", gameState)
    /\ UNCHANGED <<gameState, nextState, now, frames, input, position, velocity,
                   lastInput, proofGen, cheat, popup, faults, clicks, lastAck, ackDropped,
                   sealedLog, airWindow, airResult,
                   dispatchLog, outcomes>>

ProofGenerationSystem ==
    /\ pc = "proof"
    /\ LET submitted == SubmitAll(collector, proofGen.active_tasks)
           polled == PollFrom([proofGen EXCEPT
                                  !.active_tasks = submitted.active_tasks],
                              1, FALSE)
       IN  /\ collector' = submitted.collector
           /\ proofGen' = polled.pg
           /\ cheat' = ApplyDeferred(cheat, polled.insert_cheat)
           /\ pc' = IF polled.panicked THEN "crashed"
                    ELSE After("proof", gameState)
    /\ UNCHANGED <<gameState, nextState, now, frames, input, position, velocity,
                   lastInput, popup, faults, clicks, lastAck, ackDropped, sealedLog, airWindow,
                   airResult,
                   dispatchLog, outcomes>>

CheatDetectionSystem ==
    /\ pc = "detect"
    /\ IF /\ proofGen.stats.failed_verifications > 0
          /\ ~cheat.is_active
          /\ gameState = "Playing"
       THEN /\ cheat' = CheatRaised
            /\ nextState' = "CheatDetected"
            /\ collector' = ClearTraces(collector)
       ELSE UNCHANGED <<cheat, nextState, collector>>
    /\ pc' = After("detect", gameState)
    /\ input' = InputAfter(pc')
    /\ UNCHANGED <<gameState, now, frames, position, velocity, lastInput,
                   proofGen, popup, faults, clicks, lastAck, ackDropped, sealedLog, airWindow,
                   airResult,
                   dispatchLog, outcomes>>

CheatPopupSystem ==
    /\ pc = "popup"
    /\ popup' = (popup \/ cheat.is_active)
    /\ pc' = After("popup", gameState)
    /\ UNCHANGED <<gameState, nextState, now, frames, input, position, velocity,
                   lastInput, collector, proofGen, cheat, faults, clicks, lastAck, ackDropped,
                   sealedLog, airWindow, airResult,
                   dispatchLog, outcomes>>

DismissCheatPopupSystem ==
    /\ pc = "dismiss"
    /\ IF AckAccepted(input, cheat)
       THEN /\ cheat' = CheatDefault
            /\ popup' = FALSE
            /\ position' = <<0, 0>>
            /\ velocity' = <<0, 0>>
            /\ collector' = MarkNextTraceAsFirstAfterReset(ClearTraces(collector))
            /\ proofGen' = ResetProofGenerator(proofGen)
            /\ nextState' = "Playing"
            /\ lastAck' = now
            /\ ackDropped' = Len(proofGen.active_tasks)
       ELSE UNCHANGED <<cheat, popup, position, velocity, collector, proofGen,
                        nextState, lastAck, ackDropped>>
    /\ pc' = After("dismiss", gameState)
    /\ input' = InputAfter(pc')
    /\ UNCHANGED <<gameState, now, frames, lastInput, faults, clicks, sealedLog,
                   airWindow, airResult,
                   dispatchLog, outcomes>>

Next ==
    \/ BeginFrame
    \/ TaskFinishes
    \/ PlayerInputSystem
    \/ MouseTeleportSystem
    \/ SpeedControlSystem
    \/ UpdateInputStateSystem
    \/ MovementSystemRuns
    \/ MovementTraceCollectionSystem
    \/ ProofGenerationSystem
    \/ CheatDetectionSystem
    \/ CheatPopupSystem
    \/ DismissCheatPopupSystem

Spec == Init /\ [][Next]_vars

(***************************************************************************)
(* The collector on its own: any sequence of add_movement calls with       *)
(* non-decreasing timestamps, pops by the pipeline, and the two places     *)
(* that empty it (cheat_detection_system, dismiss_cheat_popup_system).     *)
(* sealedLog records the windows sealed since the collector was last       *)
(* emptied, in sealing order.                                              *)
(***************************************************************************)
CollectorSamples ==
    { [position |-> <<0, 0>>, velocity |-> <<0, 0>>, inputs |-> LastInputDefault],
      [position |-> <<3, 0>>, velocity |-> <<200, 0>>,
       inputs |-> [LastInputDefault EXCEPT !.right = TRUE]] }

CollectorAdd ==
    /\ frames < MaxAdds
    /\ \E dt \in 0..MaxDt, s \in CollectorSamples :
         /\ now' = now + dt
         /\ collector' = AddMovement(collector, s.position, s.velocity,
                                     s.inputs, now')
         /\ sealedLog' = sealedLog \o SealedWindows(collector, s.position,
                                                    s.velocity, s.inputs, now')
    /\ frames' = frames + 1
    /\ UNCHANGED <<gameState, nextState, pc, input, position, velocity,
                   lastInput, proofGen, cheat, popup, faults, clicks, lastAck,
                   ackDropped, airWindow, airResult,
                   dispatchLog, outcomes>>

CollectorPop ==
    /\ LET got == GetNextTraceForProving(collector)
       IN  /\ airWindow' = got.trace
           /\ collector' = got.collector
    /\ UNCHANGED <<gameState, nextState, pc, now, frames, input, position,
                   velocity, lastInput, proofGen, cheat, popup, faults, clicks,
                   lastAck, ackDropped, sealedLog, airResult,
                   dispatchLog, outcomes>>

CollectorClear ==
    /\ collector' = ClearTraces(collector)
    /\ sealedLog' = <<>>
    /\ UNCHANGED <<gameState, nextState, pc, now, frames, input, position,
                   velocity, lastInput, proofGen, cheat, popup, faults, clicks,
                   lastAck, ackDropped, airWindow, airResult,
                   dispatchLog, outcomes>>

CollectorReset ==
    /\ collector' = MarkNextTraceAsFirstAfterReset(ClearTraces(collector))
    /\ sealedLog' = <<>>
    /\ UNCHANGED <<gameState, nextState, pc, now, frames, input, position,
                   velocity, lastInput, proofGen, cheat, popup, faults, clicks,
                   lastAck, ackDropped, airWindow, airResult,
                   dispatchLog, outcomes>>

NextCollector ==
    \/ CollectorAdd
    \/ CollectorPop
    \/ CollectorClear
    \/ CollectorReset

SpecCollector == Init /\ [][NextCollector]_vars

(***************************************************************************)
(* The collector over longer runs, with frames of up to MaxQueueDt units,  *)
(* so that windows are sealed faster than the pipeline pops them and the   *)
(* queue of sealed windows fills up.  Nothing empties the collector here;  *)
(* sealedLog records every window sealed, in sealing order.  The collector *)
(* does not look into a sample, so the samples are those of a player at    *)
(* rest and the windows differ by their timestamps.                        *)
(***************************************************************************)
QueueSamples ==
    { [position |-> <<0, 0>>, velocity |-> <<0, 0>>, inputs |-> LastInputDefault] }

QueueAdd ==
    /\ frames < MaxQueueAdds
    /\ \E dt \in 0..MaxQueueDt, s \in QueueSamples :
         /\ now' = now + dt
         /\ collector' = AddMovement(collector, s.position, s.velocity,
                                     s.inputs, now')
         /\ sealedLog' = sealedLog \o SealedWindows(collector, s.position,
                                                    s.velocity, s.inputs, now')
    /\ frames' = frames + 1
    /\ UNCHANGED <<gameState, nextState, pc, input, position, velocity,
                   lastInput, proofGen, cheat, popup, faults, clicks, lastAck,
                   ackDropped, airWindow, airResult,
                   dispatchLog, outcomes>>

NextQueue ==
    \/ QueueAdd
    \/ CollectorPop

SpecQueue == Init /\ [][NextQueue]_vars

(***************************************************************************)
(* One window through the pipeline: any window of up to MaxAirLen samples, *)
(* flagged or not, is handed to a proof task (generate_proof_async), the   *)
(* task runs against a backend the environment chooses, and the poll loop  *)
(* of proof_generation_system reads its handle.                            *)
(***************************************************************************)
AirPositions == { <<0, 0>>, <<3, 0>>, <<0, -3>>, <<100000, 0>> }

AirVelocities == { <<0, 0>>, <<200, 0>>, <<0, -200>>, <<2200, 0>> }

AirInputs ==
    { LastInputDefault,
      [LastInputDefault EXCEPT !.right = TRUE],
      [LastInputDefault EXCEPT !.down = TRUE] }

AirSteps ==
    { MovementStep(p, v, f, 0) : p \in AirPositions, v \in AirVelocities,
                                 f \in AirInputs }

AirWindows ==
    { [MovementTraceNew(0, flag) EXCEPT !.steps = steps] :
        flag \in BOOLEAN,
        steps \in UNION { [1..n -> AirSteps] : n \in 1..MaxAirLen } }

InitAir ==
    /\ gameState = "Playing"
    /\ nextState = "None"
    /\ pc = "air_run"
    /\ now = 0
    /\ frames = 0
    /\ input = NoKeys
    /\ position = <<0, 0>>
    /\ velocity = <<0, 0>>
    /\ lastInput = LastInputDefault
    /\ collector = CollectorNew
    /\ proofGen = ProofGeneratorDefault
    /\ cheat = CheatDefault
    /\ popup = FALSE
    /\ faults = 0
    /\ clicks = 0
    /\ lastAck = -1
    /\ ackDropped = 0
    /\ sealedLog = <<>>
    /\ dispatchLog = <<>>
    /\ outcomes = {}
    /\ airWindow \in AirWindows
    /\ airResult = NoOutput

\* the spawned task runs to its end
AirRun ==
    /\ pc = "air_run"
    /\ \E backend \in Backends, generation_time \in 1..MaxLatency,
          verification_time \in 1..MaxLatency :
         airResult' = RunTask(SpawnTask(airWindow), backend, generation_time,
                              verification_time)
    /\ pc' = "air_poll"
    /\ UNCHANGED <<gameState, nextState, now, frames, input, position, velocity,
                   lastInput, collector, proofGen, cheat, popup, faults, clicks,
                   lastAck, ackDropped, sealedLog, airWindow,
                   dispatchLog, outcomes>>

\* the poll loop reads the finished task's handle
AirPoll ==
    /\ pc = "air_poll"
    /\ LET polled == PollFrom([proofGen EXCEPT !.active_tasks = <<airResult>>],
                              1, FALSE)
       IN  /\ proofGen' = polled.pg
           /\ cheat' = ApplyDeferred(cheat, polled.insert_cheat)
           /\ pc' = IF polled.panicked THEN "crashed" ELSE "air_done"
    /\ UNCHANGED <<gameState, nextState, now, frames, input, position, velocity,
                   lastInput, collector, popup, faults, clicks, lastAck,
                   ackDropped, sealedLog, airWindow, airResult,
                   dispatchLog, outcomes>>

NextAir ==
    \/ AirRun
    \/ AirPoll

SpecAir == InitAir /\ [][NextAir]_vars

(***************************************************************************)
(* The arithmetizer on its own: generate_movement_trace_matrix applied to  *)
(* a window and a target height.  The windows are walks to the right of    *)
(* every length up to MaxEncodeLen, and windows of one sample over the     *)
(* positions around the limits of the encoding range, velocities inside    *)
(* and outside the range of the velocity encoding, and the 16 settings of  *)
(* the input flags.                                                        *)
(***************************************************************************)
EncodeCoordinates ==
    { -100000, -50001, -50000, -49999, -1, 0, 1, 3, 49999, 50000, 100000 }

EncodePositions == { <<x, 0>> : x \in EncodeCoordinates } \cup { <<0, -3>>, <<-49999, 49999>> }

EncodeVelocities ==
    { <<0, 0>>, <<200, 0>>, <<-200, 0>>, <<0, 200>>, <<0, -200>>,
      <<999, 0>>, <<1000, 0>>, <<-1000, 0>>, <<-1001, 0>>, <<2200, 0>> }

EncodeInputs == [left : BOOLEAN, right : BOOLEAN, up : BOOLEAN, down : BOOLEAN]

\* n samples of a player walking to the right from the origin
WalkWindow(n) ==
    [MovementTraceNew(0, FALSE) EXCEPT
        !.steps = [i \in 1..n |->
                     MovementStep(<<3 * i, 0>>, <<MovementSpeed, 0>>,
                                  [LastInputDefault EXCEPT !.right = TRUE], i)]]

EncodeWindows ==
    { WalkWindow(n) : n \in 0..MaxEncodeLen }
      \cup { [MovementTraceNew(0, FALSE) EXCEPT
                 !.steps = <<MovementStep(p, v, f, 0)>>] :
               p \in EncodePositions, v \in EncodeVelocities, f \in EncodeInputs }

\* the heights the matrix is asked for: powers of two, and 3, which is none
EncodeHeights == { 1, 2, 3, 4, 8, 16 }

InitEncode ==
    /\ gameState = "Playing"
    /\ nextState = "None"
    /\ pc = "encode_run"
    /\ now = 0
    /\ frames = 0
    /\ input = NoKeys
    /\ position = <<0, 0>>
    /\ velocity = <<0, 0>>
    /\ lastInput = LastInputDefault
    /\ collector = CollectorNew
    /\ proofGen = ProofGeneratorDefault
    /\ cheat = CheatDefault
    /\ popup = FALSE
    /\ faults = 0
    /\ clicks = 0
    /\ lastAck = -1
    /\ ackDropped = 0
    /\ sealedLog = <<>>
    /\ dispatchLog = <<>>
    /\ outcomes = {}
    /\ airWindow \in EncodeWindows
    /\ airResult = NoOutput

\* generate_movement_trace_matrix(trace, target_height), with the height of
\* generate_proof_async or any other
EncodeRun ==
    /\ pc = "encode_run"
    /\ \E h \in EncodeHeights \cup {TargetHeight(airWindow)} :
         airResult' = [target_height |-> h, matrix |-> GenerateMatrix(airWindow, h)]
    /\ pc' = "encode_done"
    /\ UNCHANGED <<gameState, nextState, now, frames, input, position, velocity,
                   lastInput, collector, proofGen, cheat, popup, faults, clicks,
                   lastAck, ackDropped, sealedLog, airWindow,
                   dispatchLog, outcomes>>

NextEncode ==
    \/ EncodeRun

SpecEncode == InitEncode /\ [][NextEncode]_vars

(***************************************************************************)
(* The input systems of a tick under every setting of the keys: the four   *)
(* direction keys and the three keys of speed_control_system.  A frame     *)
(* lasts as long as a window (TraceDuration), so every two consecutive     *)
(* samples are sealed as a window, handed to a task and polled in the next *)
(* frame.  After MaxTicks frames with keys one more frame runs with no key *)
(* pressed, in which the last task is polled.                              *)
(***************************************************************************)
TickInputs ==
    { [NoKeys EXCEPT !.left = f.left, !.right = f.right, !.up = f.up,
                     !.down = f.down, !.shift = m[1], !.space = m[2],
                     !.ctrl = m[3]] :
        f \in EncodeInputs, m \in BOOLEAN \X BOOLEAN \X BOOLEAN }

TickBegin ==
    /\ pc = "frame"
    /\ frames < MaxTicks + 1
    /\ \E keys \in TickInputs :
         /\ frames >= MaxTicks => keys = NoKeys
         /\ input' = keys
    /\ now' = now + TraceDuration
    /\ frames' = frames + 1
    /\ gameState' = IF nextState # "None" THEN nextState ELSE gameState
    /\ nextState' = "None"
    /\ pc' = FirstRunnableFrom(1, gameState')
    /\ UNCHANGED <<position, velocity, lastInput, collector, proofGen, cheat,
                   popup, faults, clicks, lastAck, ackDropped, sealedLog,
                   airWindow, airResult, dispatchLog, outcomes>>

NextTick ==
    \/ TickBegin
    \/ TaskFinishes
    \/ PlayerInputSystem
    \/ MouseTeleportSystem
    \/ SpeedControlSystem
    \/ UpdateInputStateSystem
    \/ MovementSystemRuns
    \/ MovementTraceCollectionSystem
    \/ ProofGenerationSystem
    \/ CheatDetectionSystem

SpecTick == Init /\ [][NextTick]_vars

(***************************************************************************)
(* The self-contained checker next to the AIR: check_movement_constraints  *)
(* applied to a trace matrix.  The matrices are every matrix of up to      *)
(* MaxCheckRows rows over a few encoded positions, velocities and flag     *)
(* columns, flags that are not boolean included, and the four-row matrices *)
(* the arithmetizer builds for the unflagged windows of the pipeline runs. *)
(***************************************************************************)
CheckRows ==
    { [position_x |-> p[1], position_y |-> p[2],
       velocity_x |-> v[1], velocity_y |-> v[2],
       input_left |-> f[1], input_right |-> f[2],
       input_up |-> f[3], input_down |-> f[4]] :
        p \in { <<50000000, 50000000>>, <<50003000, 50000000>>,
                <<50000000, 49997000>> },
        v \in { <<1000, 1000>>, <<1200, 1000>>, <<1000, 800>>, <<1400, 1000>> },
        f \in { <<0, 0, 0, 0>>, <<0, 1, 0, 0>>, <<0, 0, 0, 1>>,
                <<0, 2, 0, 0>>, <<1, 0, 0, 0>> } }

CheckMatrices ==
    UNION { [1..n -> CheckRows] : n \in 1..MaxCheckRows }
      \cup { GenerateMatrix(w, 4).rows :
               w \in { x \in AirWindows : ~x.is_first_trace_after_reset } }

InitCheck ==
    /\ gameState = "Playing"
    /\ nextState = "None"
    /\ pc = "check_run"
    /\ now = 0
    /\ frames = 0
    /\ input = NoKeys
    /\ position = <<0, 0>>
    /\ velocity = <<0, 0>>
    /\ lastInput = LastInputDefault
    /\ collector = CollectorNew
    /\ proofGen = ProofGeneratorDefault
    /\ cheat = CheatDefault
    /\ popup = FALSE
    /\ faults = 0
    /\ clicks = 0
    /\ lastAck = -1
    /\ ackDropped = 0
    /\ sealedLog = <<>>
    /\ dispatchLog = <<>>
    /\ outcomes = {}
    /\ airWindow = NoTrace
    /\ airResult \in { [matrix |-> m, verdict |-> "none"] : m \in CheckMatrices }

\* check_movement_constraints(&air, &trace_matrix)
CheckRun ==
    /\ pc = "check_run"
    /\ airResult' = [airResult EXCEPT
                        !.verdict = CheckMovementConstraints(airResult.matrix)]
    /\ pc' = "check_done"
    /\ UNCHANGED <<gameState, nextState, now, frames, input, position, velocity,
                   lastInput, collector, proofGen, cheat, popup, faults, clicks,
                   lastAck, ackDropped, sealedLog, airWindow,
                   dispatchLog, outcomes>>

NextCheck ==
    \/ CheckRun

SpecCheck == InitCheck /\ [][NextCheck]_vars

(***************************************************************************)
(* The pipeline on its own: the collector fed with samples, the proof      *)
(* tasks on the task pool and proof_generation_system, with no state       *)
(* machine stopping it.  Tasks finish in any order, at any time after      *)
(* their dispatch.  dispatchLog records the window of every task spawned,  *)
(* in order, outcomes the tasks that ran to their end.                     *)
(***************************************************************************)
PipeSamples ==
    { [position |-> <<0, 0>>, velocity |-> <<0, 0>>, inputs |-> LastInputDefault],
      [position |-> <<40, 0>>, velocity |-> <<0, 0>>, inputs |-> LastInputDefault] }

\* the windows of the tasks the submit loop appended to active_tasks
NewlySpawned(before, after) ==
    [k \in 1..(Len(after) - Len(before)) |-> after[Len(before) + k].trace]

\* movement_trace_collection_system: one frame's sample, of a player at rest
\* at the origin or, on at most MaxClicks frames, teleported away from it;
\* at most MaxFaults frames take longer than one unit of time
PipeCollect ==
    /\ pc = "frame"
    /\ frames < MaxPipeAdds
    /\ \E s \in PipeSamples, dt \in 1..MaxPipeDt :
         /\ s.position # <<0, 0>> => clicks < MaxClicks
         /\ dt > 1 => faults < MaxFaults
         /\ now' = now + dt
         /\ collector' = AddMovement(collector, s.position, s.velocity,
                                     s.inputs, now')
         /\ clicks' = IF s.position # <<0, 0>> THEN clicks + 1 ELSE clicks
         /\ faults' = IF dt > 1 THEN faults + 1 ELSE faults
    /\ frames' = frames + 1
    /\ UNCHANGED <<gameState, nextState, pc, input, position, velocity,
                   lastInput, proofGen, cheat, popup, lastAck,
                   ackDropped, sealedLog, airWindow, airResult,
                   dispatchLog, outcomes>>

\* a task runs to its end on the task pool
PipeTaskFinishes ==
    /\ pc = "frame"
    /\ \E i \in 1..Len(proofGen.active_tasks),
          backend \in Backends,
          generation_time \in 1..MaxPipeLatency,
          verification_time \in 1..MaxPipeLatency :
         /\ ~proofGen.active_tasks[i].done
         /\ proofGen' = [proofGen EXCEPT !.active_tasks[i] =
                           RunTask(@, backend, generation_time, verification_time)]
         /\ outcomes' = outcomes \cup {proofGen'.active_tasks[i]}
    /\ UNCHANGED <<gameState, nextState, pc, now, frames, input, position,
                   velocity, lastInput, collector, cheat, popup, faults, clicks,
                   lastAck, ackDropped, sealedLog, airWindow, airResult,
                   dispatchLog>>

\* proof_generation_system: the submit loop, then the poll loop
PipeProof ==
    /\ pc = "frame"
    /\ LET submitted == SubmitAll(collector, proofGen.active_tasks)
           polled == PollFrom([proofGen EXCEPT
                                  !.active_tasks = submitted.active_tasks],
                              1, FALSE)
       IN  /\ collector' = submitted.collector
           /\ proofGen' = polled.pg
           /\ cheat' = ApplyDeferred(cheat, polled.insert_cheat)
           /\ pc' = IF polled.panicked THEN "crashed" ELSE pc
           /\ dispatchLog' = dispatchLog \o
                 NewlySpawned(proofGen.active_tasks, submitted.active_tasks)
    /\ UNCHANGED <<gameState, nextState, now, frames, input, position, velocity,
                   lastInput, popup, faults, clicks, lastAck, ackDropped,
                   sealedLog, airWindow, airResult, outcomes>>

NextPipeline ==
    \/ PipeCollect
    \/ PipeTaskFinishes
    \/ PipeProof

SpecPipeline == Init /\ [][NextPipeline]_vars

(***************************************************************************)
(* Properties.                                                             *)
(***************************************************************************)
LastStep(trace) == trace.steps[Len(trace.steps)]

FlagVelocity(inputs) ==
    << MovementSpeed * (BoolBit(inputs.right) - BoolBit(inputs.left)),
       MovementSpeed * (BoolBit(inputs.up) - BoolBit(inputs.down)) >>

\* C1: windows sealed one after the other since the collector was last
\* emptied share their boundary sample: the first sample of the later window
\* is the last sample of the earlier one, and the window being filled starts
\* with the last sample of the window sealed last.
AdjacentWindowsShareBoundary ==
    /\ \A k \in 1..(Len(sealedLog) - 1) :
          sealedLog[k + 1].steps[1] = LastStep(sealedLog[k])
    /\ (sealedLog # <<>> /\ collector.current_trace # NoTrace)
          => collector.current_trace.steps[1] = LastStep(sealedLog[Len(sealedLog)])

TwoWindowsSealed ==
    /\ Len(sealedLog) >= 2
    /\ LastStep(sealedLog[1]).position # LastStep(sealedLog[2]).position

(***************************************************************************)
(* Properties of one window through the pipeline.                          *)
(***************************************************************************)
AirMatrix == GenerateMatrix(airWindow, TargetHeight(airWindow))

AirTaskRan == pc # "air_run"

AirPolled == pc \in {"air_done", "crashed"}

\* every sample's velocity is the one its recorded flags stand for
FlagsMatchVelocity(trace) ==
    \A i \in 1..Len(trace.steps) :
        trace.steps[i].velocity = FlagVelocity(trace.steps[i].inputs)

\* sample i + 1 is where the velocity of sample i + 1 takes sample i,
\* in thousandths of a pixel
PositionFollows(trace, i) ==
    \A axis \in 1..2 :
        trace.steps[i + 1].position[axis] * PositionScale =
            trace.steps[i].position[axis] * PositionScale
              + trace.steps[i + 1].velocity[axis] * PhysicsFactor

HasPositionJump(trace) ==
    \E i \in 1..(Len(trace.steps) - 1) : ~PositionFollows(trace, i)

InEncodingBound(trace) ==
    \A i \in 1..Len(trace.steps), axis \in 1..2 :
        /\ trace.steps[i].position[axis] * PositionScale < PositionBias
        /\ trace.steps[i].position[axis] * PositionScale > -PositionBias

\* C3: an accepted matrix has next position = position + (next velocity -
\* 1000) * 15 on both axes of every adjacent row pair but the wraparound
\* pair, and a window whose velocities match its flags but in which a
\* sample's position jumps away from where its velocity takes it is
\* rejected with a constraint violation.
PositionJumpRejected ==
    AirTaskRan /\ ~AirMatrix.panicked =>
        /\ airResult.output.error # ErrConstraint =>
              \A i \in 1..(Len(AirMatrix.rows) - 1) :
                 /\ AirMatrix.rows[i + 1].position_x =
                      AirMatrix.rows[i].position_x
                        + (AirMatrix.rows[i + 1].velocity_x - VelocityOffset)
                            * PhysicsFactor
                 /\ AirMatrix.rows[i + 1].position_y =
                      AirMatrix.rows[i].position_y
                        + (AirMatrix.rows[i + 1].velocity_y - VelocityOffset)
                            * PhysicsFactor
        /\ FlagsMatchVelocity(airWindow) /\ HasPositionJump(airWindow) =>
              /\ ~airResult.output.ok
              /\ airResult.output.error = ErrConstraint

\* C4: a sample whose encoded row satisfies the velocity constraint has
\* the velocity its flags stand for: 200 * (right - left), 200 * (up - down).
VelocityConstraintOnlyForFlagVelocity ==
    AirTaskRan /\ ~AirMatrix.panicked =>
        \A i \in 1..Len(airWindow.steps) :
            VelocityConstraint(AirMatrix.rows[i]) =>
                airWindow.steps[i].velocity =
                    FlagVelocity(airWindow.steps[i].inputs)

\* a window of honest play: velocities from the flags, positions advanced
\* by movement_system
HonestWindow(trace) ==
    /\ FlagsMatchVelocity(trace)
    /\ \A i \in 1..(Len(trace.steps) - 1) :
          trace.steps[i + 1].position =
              MovementSystem(trace.steps[i].position, trace.steps[i + 1].velocity)

\* C5: the padded matrix built for a window of honest play inside the
\* encoding bound satisfies every constraint on every row and row pair, so
\* prove returns a proof and no constraint violation is reported.
HonestWindowAccepted ==
    (AirTaskRan /\ HonestWindow(airWindow) /\ InEncodingBound(airWindow)
        /\ ~AirMatrix.panicked) =>
        /\ \A i \in 1..Len(AirMatrix.rows) :
              /\ BooleanConstraint(AirMatrix.rows[i])
              /\ VelocityConstraint(AirMatrix.rows[i])
              /\ i < Len(AirMatrix.rows) =>
                    TransitionConstraint(AirMatrix.rows[i], AirMatrix.rows[i + 1])
        /\ airResult.output.prove_called
        /\ ~airResult.output.escaped
        /\ airResult.output.error # ErrConstraint

HonestMovingWindowProved ==
    /\ pc = "air_done"
    /\ HonestWindow(airWindow)
    /\ Len(airWindow.steps) = 2
    /\ airWindow.steps[2].position = <<0, -3>>
    /\ airResult.output.ok
    /\ proofGen.stats.successful_verifications = 1

\* C6: a panic of prove is caught in the task: the task ends with a
\* constraint violation error and verification latency 0, verify is not
\* called, and the poll that reads the handle accounts one failure and
\* does not panic.
ProvePanicContained ==
    (AirTaskRan /\ ~AirMatrix.panicked /\ Prove(AirMatrix.rows) = "panic") =>
        /\ airResult.done
        /\ airResult.output =
              TaskOutput(FALSE, FALSE, ErrConstraint, 0, TRUE, FALSE)
        /\ AirPolled =>
              /\ pc = "air_done"
              /\ proofGen.active_tasks = <<>>
              /\ proofGen.stats.failed_verifications = 1

ProvePanicPolled ==
    /\ pc = "air_done"
    /\ ~AirMatrix.panicked
    /\ Prove(AirMatrix.rows) = "panic"

\* C7: a window flagged first-after-reset whose first sample is not the
\* origin at rest makes the matrix builder panic before a row is encoded
\* and before prove is called; the task yields no outcome, so no failure
\* is counted and no cheat is raised; the panic reaches the poll.  A window
\* that is not flagged is never stopped by this check.
OriginCheckFatal ==
    AirTaskRan =>
        /\ OriginViolated(airWindow) =>
              /\ AirMatrix.panicked
              /\ AirMatrix.rows_encoded = 0
              /\ airResult.output.escaped
              /\ ~airResult.output.prove_called
              /\ ~airResult.output.verify_called
              /\ airResult.output.error = NoError
              /\ AirPolled =>
                    /\ pc = "crashed"
                    /\ proofGen.stats.failed_verifications = 0
                    /\ ~cheat.is_active
        /\ ~airWindow.is_first_trace_after_reset =>
              /\ ~AirMatrix.panicked
              /\ airResult.output.prove_called

FlaggedWindowCrashed ==
    /\ pc = "crashed"
    /\ airWindow.is_first_trace_after_reset
    /\ airWindow.steps[1].position = <<3, 0>>

(***************************************************************************)
(* Properties of the composed game.                                        *)
(***************************************************************************)
\* C2: a tick of Playing in which the poll has recorded a failed outcome
\* ends with the transition to CheatDetected requested and the notice
\* active, whatever the kind of the failure.
FailureEntersViolation ==
    (pc = "frame" /\ gameState = "Playing"
        /\ proofGen.stats.failed_verifications > 0) =>
        /\ nextState = "CheatDetected"
        /\ cheat.is_active

\* C8: the state leaves CheatDetected for Playing only in the StateTransition
\* of a frame for which Playing was requested, and Playing is requested only
\* by dismiss_cheat_popup_system on an Escape press while the notice is
\* active; no other step requests it.
OnlyAckLeavesViolation ==
    [][ /\ (gameState = "CheatDetected" /\ gameState' # "CheatDetected") =>
              (gameState' = "Playing" /\ nextState = "Playing")
        /\ (nextState' = "Playing" /\ nextState # "Playing") =>
              /\ pc = "dismiss"
              /\ gameState = "CheatDetected"
              /\ input.esc
              /\ cheat.is_active ]_vars

PlayingAgainAfterAck ==
    /\ gameState = "Playing"
    /\ lastAck >= 0
    /\ pc = "collect"

\* C9: from the accepted acknowledgement until the state is Playing again
\* (while Playing is the requested state), position and velocity are (0,0),
\* the notice and its message are cleared, the collector holds no window,
\* and every counter of the pipeline is zero.
AckResetsBeforePlaying ==
    nextState = "Playing" =>
        /\ gameState = "CheatDetected"
        /\ position = <<0, 0>>
        /\ velocity = <<0, 0>>
        /\ cheat = CheatDefault
        /\ collector.current_trace = NoTrace
        /\ collector.completed_traces = <<>>
        /\ proofGen.completed_count = 0
        /\ proofGen.stats = ProofStatsDefault

AckAfterMovement ==
    /\ nextState = "Playing"
    /\ lastAck >= 0
    /\ ackDropped > 0

\* C10: after an acknowledgement nothing collected or submitted before it
\* is left to be polled: every task in flight and every window the
\* collector holds started after the acknowledgement.
NoStaleWindowAfterAck ==
    /\ \A i \in 1..Len(proofGen.active_tasks) :
          proofGen.active_tasks[i].trace.start_time > lastAck
    /\ \A i \in 1..Len(collector.completed_traces) :
          collector.completed_traces[i].start_time > lastAck
    /\ collector.current_trace # NoTrace =>
          collector.current_trace.start_time > lastAck

PlayResumedAfterTasksDropped ==
    /\ gameState = "Playing"
    /\ ackDropped > 0
    /\ collector.current_trace # NoTrace

\* the windows of the tasks in the pipeline, in order
TaskWindows(pg) == [i \in 1..Len(pg.active_tasks) |-> pg.active_tasks[i].trace]

\* C11: while the state is CheatDetected and no acknowledgement is accepted,
\* no step, a proof task finishing included, changes the state, the notice
\* or any counter of the statistics.
FinishedTasksIgnoredInViolation ==
    [][ (gameState = "CheatDetected" /\ nextState = "None"
            /\ nextState' = "None") =>
          /\ gameState' = "CheatDetected"
          /\ cheat' = cheat
          /\ proofGen'.stats = proofGen.stats
          /\ proofGen'.completed_count = proofGen.completed_count ]_vars

TaskFinishedInViolation ==
    /\ gameState = "CheatDetected"
    /\ nextState = "None"
    /\ pc = "frame"
    /\ \E i \in 1..Len(proofGen.active_tasks) : proofGen.active_tasks[i].done

\* C12: from the step that detects the failure on, while the state is or is
\* about to be CheatDetected and no acknowledgement is accepted, no step
\* changes position or velocity, adds a sample to the collector or
\* dispatches a task.
ViolationFreezesSimulation ==
    [][ ((gameState = "CheatDetected" \/ nextState = "CheatDetected")
            /\ ~(nextState # "Playing" /\ nextState' = "Playing")) =>
          /\ position' = position
          /\ velocity' = velocity
          /\ collector' = collector
          /\ TaskWindows(proofGen') = TaskWindows(proofGen) ]_vars

ViolationTickWithVelocity ==
    /\ gameState = "CheatDetected"
    /\ nextState = "None"
    /\ pc = "frame"
    /\ velocity = <<MovementSpeed, 0>>
    /\ proofGen.active_tasks # <<>>

\* C13: in CheatDetected the collector holds no window, unsealed or queued.
NoWindowInViolation ==
    gameState = "CheatDetected" =>
        /\ collector.current_trace = NoTrace
        /\ collector.completed_traces = <<>>

ViolationAfterMovement ==
    /\ gameState = "CheatDetected"
    /\ pc = "dismiss"
    /\ position # <<0, 0>>

\* C14: Escape pressed in a tick of Playing is no acknowledgement: the
\* dismiss system does not run, Playing is not requested, and no step of the
\* tick resets position, velocity, the notice, the collector, the tasks or
\* the statistics.
AckWhilePlayingIgnored ==
    [][ (gameState = "Playing" /\ input.esc) =>
          /\ pc \notin {"popup", "dismiss"}
          /\ nextState' # "Playing"
          /\ lastAck' = lastAck
          /\ position' = position
          /\ pc # "player_input" => velocity' = velocity
          /\ cheat.is_active => cheat' = cheat
          /\ pc \notin {"collect", "proof", "detect"} => collector' = collector
          /\ pc # "proof" =>
                /\ TaskWindows(proofGen') = TaskWindows(proofGen)
                /\ proofGen'.stats = proofGen.stats
                /\ proofGen'.completed_count = proofGen.completed_count ]_vars

EscapeWhilePlayingWithNotice ==
    /\ gameState = "Playing"
    /\ input.esc
    /\ pc = "detect"
    /\ cheat.is_active
    /\ proofGen.active_tasks # <<>>

(***************************************************************************)
(* Properties of the pipeline on its own.                                  *)
(***************************************************************************)
\* the finished tasks of a list whose result is Ok (ok) or Err (~ok)
FinishedWith(tasks, ok) ==
    SelectSeq(tasks, LAMBDA t : t.done /\ t.output.ok = ok)

Unfinished(tasks) == SelectSeq(tasks, LAMBDA t : ~t.done)

\* the outcomes whose result is Ok (ok) or Err (~ok)
OutcomesWith(ok) == { t \in outcomes : t.output.ok = ok }

\* the sums of ProofResult::generation_time_ms and of
\* ProofResult::verification_time_ms over a set of finished tasks
RECURSIVE GenerationTimeSum(_)
GenerationTimeSum(tasks) ==
    IF tasks = {} THEN 0
    ELSE LET t == CHOOSE x \in tasks : TRUE
         IN  t.generation_time_ms + GenerationTimeSum(tasks \ {t})

RECURSIVE VerificationTimeSum(_)
VerificationTimeSum(tasks) ==
    IF tasks = {} THEN 0
    ELSE LET t == CHOOSE x \in tasks : TRUE
         IN  t.output.verification_time_ms + VerificationTimeSum(tasks \ {t})

\* every task dispatched so far has run to its end and has been polled
AllOutcomesPolled ==
    /\ dispatchLog # <<>>
    /\ Cardinality(outcomes) = Len(dispatchLog)
    /\ proofGen.active_tasks = <<>>

\* C15: once every outcome of the windows submitted has been produced and
\* polled, the success and failure counts and the two latency totals are the
\* sums over all the outcomes, whatever the order the tasks completed in.
StatsSumAllOutcomes ==
    AllOutcomesPolled =>
        /\ proofGen.stats.successful_verifications
             = Cardinality(OutcomesWith(TRUE))
        /\ proofGen.stats.failed_verifications
             = Cardinality(OutcomesWith(FALSE))
        /\ proofGen.stats.total_generation_time_ms
             = GenerationTimeSum(outcomes)
        /\ proofGen.stats.total_verification_time_ms
             = VerificationTimeSum(outcomes)

\* what the code keeps: the counts over all outcomes, the generated count and
\* the latency totals over the successful outcomes only
StatsSumSuccessfulOutcomes ==
    AllOutcomesPolled =>
        /\ proofGen.stats.successful_verifications
             = Cardinality(OutcomesWith(TRUE))
        /\ proofGen.stats.failed_verifications
             = Cardinality(OutcomesWith(FALSE))
        /\ proofGen.stats.total_proofs_generated
             = Cardinality(OutcomesWith(TRUE))
        /\ proofGen.stats.total_generation_time_ms
             = GenerationTimeSum(OutcomesWith(TRUE))
        /\ proofGen.stats.total_verification_time_ms
             = VerificationTimeSum(OutcomesWith(TRUE))

\* a step of proof_generation_system in a pipeline run that does not crash
PollPassStep ==
    outcomes' = outcomes /\ frames' = frames /\ pc' # "crashed"

\* C16: one pass of the poll loop removes every finished task, whatever its
\* position in the list, and counts its outcome once; the unfinished tasks
\* stay, unfinished and in their order, followed by the tasks just spawned.
PollPassDrainsFinished ==
    [][ PollPassStep =>
          LET before == proofGen.active_tasks
              after == proofGen'.active_tasks
              kept == Len(Unfinished(before))
          IN  /\ Len(after) >= kept
              /\ SubSeq(after, 1, kept) = Unfinished(before)
              /\ \A k \in (kept + 1)..Len(after) :
                    /\ ~after[k].done
                    /\ \A j \in 1..Len(before) : before[j].trace # after[k].trace
              /\ proofGen'.stats.successful_verifications
                   = proofGen.stats.successful_verifications
                       + Len(FinishedWith(before, TRUE))
              /\ proofGen'.stats.failed_verifications
                   = proofGen.stats.failed_verifications
                       + Len(FinishedWith(before, FALSE))
              /\ proofGen'.completed_count
                   = proofGen.completed_count + Len(FinishedWith(before, TRUE))
      ]_vars

\* the first and the third task dispatched have finished and have been
\* polled, the second one is still running and still in the list
MiddleTaskLeftAfterPoll ==
    /\ Len(dispatchLog) = 3
    /\ Cardinality(outcomes) = 2
    /\ proofGen.stats.successful_verifications
         + proofGen.stats.failed_verifications = 2
    /\ Len(proofGen.active_tasks) = 1
    /\ ~proofGen.active_tasks[1].done
    /\ proofGen.active_tasks[1].trace = dispatchLog[2]

\* C17: a dispatched task stays in the pipeline until it has run to its end
\* and has been polled: no step, the detection and the acknowledgement
\* included, takes an unfinished task out of active_tasks.
UnfinishedTaskStays ==
    [][ \A i \in 1..Len(proofGen.active_tasks) :
          ~proofGen.active_tasks[i].done =>
              \E j \in 1..Len(proofGen'.active_tasks) :
                  proofGen'.active_tasks[j].trace = proofGen.active_tasks[i].trace
      ]_vars

\* the windows of a sequence are pairwise different
Distinct(windows) ==
    \A i, j \in 1..Len(windows) : i # j => windows[i] # windows[j]

\* the windows the collector holds: the queue of sealed windows
Queued(w) ==
    \E k \in 1..Len(collector.completed_traces) : collector.completed_traces[k] = w

\* C18: a sealed window is handed to at most one task: no window is
\* dispatched twice, no window is both queued and dispatched, and the window
\* of a failed task is not queued again or given to another task.
WindowDispatchedOnce ==
    /\ Distinct(dispatchLog)
    /\ Distinct(TaskWindows(proofGen))
    /\ Distinct(collector.completed_traces)
    /\ \A i \in 1..Len(dispatchLog) : ~Queued(dispatchLog[i])
    /\ \A t \in OutcomesWith(FALSE) :
          /\ ~Queued(t.trace)
          /\ \A i \in 1..Len(proofGen.active_tasks) :
                proofGen.active_tasks[i].trace = t.trace
                    => proofGen.active_tasks[i] = t

\* a task has failed and has been polled, and two windows sealed later have
\* been dispatched after it
DispatchGoesOnAfterFailure ==
    /\ Len(dispatchLog) = 3
    /\ proofGen.stats.failed_verifications = 1
    /\ \E t \in OutcomesWith(FALSE) : t.trace = dispatchLog[1]
    /\ Len(proofGen.active_tasks) = 2

\* C19: every window the submit loop pops from the queue of sealed windows
\* gets one task: a pass empties the queue, and the tasks it appends are one
\* for each window that was queued, in the queue's order, none left out.
PoppedWindowsDispatched ==
    [][ PollPassStep =>
          LET queue == collector.completed_traces
              n == Len(dispatchLog)
              after == proofGen'.active_tasks
          IN  /\ collector'.completed_traces = <<>>
              /\ Len(dispatchLog') = n + Len(queue)
              /\ SubSeq(dispatchLog', n + 1, Len(dispatchLog')) = queue
              /\ Len(after) >= Len(queue)
              /\ SubSeq(TaskWindows(proofGen'),
                        Len(after) - Len(queue) + 1, Len(after)) = queue
      ]_vars

\* a window of two samples, the least a sealed window can hold, has been
\* popped and its task is in the pipeline
TwoStepWindowDispatched ==
    \E i \in 1..Len(proofGen.active_tasks) :
        /\ Len(proofGen.active_tasks[i].trace.steps) = 2
        /\ proofGen.active_tasks[i].trace = dispatchLog[Len(dispatchLog)]

\* the Err values of generate_proof_async, one for each failure kind
FailureKinds == {ErrSerialize, ErrConstraint, ErrInvalid, ErrCorrupted}

\* the failures of a kind that ProofStats lets one read: failed_verifications
\* is its only failure counter, whatever the kind
FailuresReadBack(kind) == proofGen.stats.failed_verifications

\* C20: the statistics keep a count for each failure kind: once the outcomes
\* have been polled, the count read back for a kind is the number of
\* outcomes that failed with that kind.
FailureCountPerKind ==
    AllOutcomesPolled =>
        \A kind \in FailureKinds :
            FailuresReadBack(kind)
                = Cardinality({ t \in OutcomesWith(FALSE) : t.output.error = kind })

(***************************************************************************)
(* Properties of the collector's queue.                                    *)
(***************************************************************************)
\* an add_movement call, and a get_next_trace_for_proving call, of a SpecQueue run
QueueAddStep == frames' = frames + 1

QueuePopStep == frames' = frames

\* the last n elements of a sequence
Suffix(seq, n) == SubSeq(seq, Len(seq) - n + 1, Len(seq))

\* the place of a sealed window in the sealing order
SealingIndex(w) == CHOOSE i \in 1..Len(sealedLog) : sealedLog[i] = w

\* C21: the queue never holds more than max_completed_traces windows; an
\* add_movement call that seals a window leaves the queue as it was with the
\* sealed window at its end, cut from the front to the bound when it is full.
QueueBoundedDropsOldest ==
    [][ QueueAddStep =>
          LET sealed == SubSeq(sealedLog', Len(sealedLog) + 1, Len(sealedLog'))
              all == collector.completed_traces \o sealed
          IN  /\ Len(collector'.completed_traces) <= MaxCompletedTraces
              /\ collector'.completed_traces =
                    IF Len(all) > MaxCompletedTraces
                    THEN Suffix(all, MaxCompletedTraces) ELSE all
      ]_vars

\* six windows sealed and none popped: the first one has been dropped
OldestWindowDropped ==
    /\ Len(sealedLog) = MaxCompletedTraces + 1
    /\ airWindow = NoTrace
    /\ Len(collector.completed_traces) = MaxCompletedTraces
    /\ collector.completed_traces[1] = sealedLog[2]
    /\ collector.completed_traces[MaxCompletedTraces] = sealedLog[Len(sealedLog)]

\* C22: get_next_trace_for_proving gives the queued window that was sealed
\* first and takes it off the queue, the others staying in their order; on
\* an empty queue it gives None and changes nothing.
PopReturnsOldestQueued ==
    [][ QueuePopStep =>
          LET queue == collector.completed_traces
          IN  IF queue = <<>>
              THEN airWindow' = NoTrace /\ collector' = collector
              ELSE /\ airWindow' = queue[1]
                   /\ \A k \in 1..Len(queue) :
                         SealingIndex(queue[k]) >= SealingIndex(airWindow')
                   /\ collector'.completed_traces = Tail(queue)
                   /\ collector'.current_trace = collector.current_trace
      ]_vars

\* the second window sealed has just been popped, after the first, and the
\* third is the next one in the queue
SecondWindowPopped ==
    /\ Len(sealedLog) >= 3
    /\ airWindow = sealedLog[2]
    /\ collector.completed_traces # <<>>
    /\ collector.completed_traces[1] = sealedLog[3]

\* the duration of a window up to its i-th sample
DurationAt(w, i) == w.steps[i].timestamp - w.start_time

\* C23: after add_movement every queued window has reached the threshold
\* with its last sample and not before, and the window being filled has not
\* reached it; duration is the last timestamp minus the start time.
WindowsSealedAtThreshold ==
    /\ \A k \in 1..Len(collector.completed_traces) :
          LET w == collector.completed_traces[k]
          IN  /\ w.duration = DurationAt(w, Len(w.steps))
              /\ w.duration >= TraceDuration
              /\ \A i \in 1..(Len(w.steps) - 1) : DurationAt(w, i) < TraceDuration
    /\ collector.current_trace # NoTrace =>
          LET w == collector.current_trace
          IN  /\ w.duration = DurationAt(w, Len(w.steps))
              /\ w.duration < TraceDuration

\* a window sealed exactly at the threshold and one sealed past it are
\* queued, and the window being filled has a sample after its first
ThresholdMetAndPassed ==
    /\ \E k \in 1..Len(collector.completed_traces) :
          collector.completed_traces[k].duration = TraceDuration
    /\ \E k \in 1..Len(collector.completed_traces) :
          collector.completed_traces[k].duration > TraceDuration
    /\ collector.current_trace # NoTrace
    /\ Len(collector.current_trace.steps) >= 2

\* the windows a collector holds, the queued ones and the one being filled
HeldWindows(c) ==
    { c.completed_traces[k] : k \in 1..Len(c.completed_traces) }
        \cup (IF c.current_trace = NoTrace THEN {} ELSE {c.current_trace})

FirstSampleAfterAckAtOrigin ==
    \A w \in HeldWindows(collector)
               \cup { proofGen.active_tasks[i].trace :
                        i \in 1..Len(proofGen.active_tasks) } :
        w.is_first_trace_after_reset =>
            /\ w.steps[1].position = <<0, 0>>
            /\ w.steps[1].velocity = <<0, 0>>

(***************************************************************************)
(* Properties of the arithmetizer on its own.                              *)
(***************************************************************************)
EncodeDone == pc = "encode_done"

\* the matrix has been built: no assertion of the builder has failed
EncodeBuilt == EncodeDone /\ ~airResult.matrix.panicked

PowersOfTwo == { 2 ^ k : k \in 0..10 }

\* the least power of two that is at least n
LeastPowerOfTwo(n) ==
    CHOOSE q \in PowersOfTwo : q >= n /\ \A r \in PowersOfTwo : r >= n => r >= q

\* C26: the height generate_proof_async asks for is the least power of two
\* that is at least the window's length and at least 8, the builder accepts
\* it, and next_power_of_2(n) is the least power of two >= n, 1 for n = 0.
HeightIsLeastPowerOfTwo ==
    LET n == Len(airWindow.steps)
    IN  /\ TargetHeight(airWindow) = LeastPowerOfTwo(Max(n, MinTraceHeight))
        /\ TargetHeight(airWindow) >= MinTraceHeight
        /\ TargetHeight(airWindow) >= n
        /\ NextPowerOf2(n) = (IF n = 0 THEN 1 ELSE LeastPowerOfTwo(n))
        /\ (EncodeDone /\ airResult.target_height = TargetHeight(airWindow)) =>
              /\ ~airResult.matrix.panicked
              /\ Len(airResult.matrix.rows) = LeastPowerOfTwo(Max(n, MinTraceHeight))

\* a window of 33 samples has been given a matrix of 64 rows
LongWindowBuilt ==
    /\ EncodeBuilt
    /\ Len(airWindow.steps) = 33
    /\ Len(airResult.matrix.rows) = 64

\* C27: for a window of n >= 1 samples and a height h >= n, rows 1..n of the
\* matrix encode the samples in order and rows n+1..h carry the encoded
\* position of the last sample, velocity 1000, 1000 and flags 0.
PaddingRepeatsLastPosition ==
    (EncodeBuilt /\ airWindow.steps # <<>>) =>
        LET n == Len(airWindow.steps)
            rows == airResult.matrix.rows
        IN  /\ Len(rows) = airResult.target_height
            /\ \A i \in 1..n : rows[i] = EncodeRow(airWindow.steps[i])
            /\ \A i \in (n + 1)..Len(rows) :
                  /\ rows[i].position_x = rows[n].position_x
                  /\ rows[i].position_y = rows[n].position_y
                  /\ rows[i].velocity_x = 1000
                  /\ rows[i].velocity_y = 1000
                  /\ rows[i].input_left = 0 /\ rows[i].input_right = 0
                  /\ rows[i].input_up = 0 /\ rows[i].input_down = 0

\* five samples of a moving player padded to eight rows
MovingWindowPadded ==
    /\ EncodeBuilt
    /\ Len(airWindow.steps) = 5
    /\ airResult.target_height = 8
    /\ airResult.matrix.rows[5].velocity_x # 1000

\* a coordinate inside the declared bound of the position encoding
InPositionBound(p) ==
    /\ p * PositionScale > -PositionBias
    /\ p * PositionScale < PositionBias

\* a velocity component inside the range of the velocity encoding
InVelocityRange(v) ==
    /\ v + VelocityOffset >= 0
    /\ v + VelocityOffset < VelocityModulus

\* C28: for a coordinate inside the bound the encoded value minus the bias
\* is the coordinate scaled by 1000, and no other coordinate inside the
\* bound has the same encoding.
PositionEncodingInverts ==
    EncodeBuilt =>
        \A i \in 1..Len(airWindow.steps) :
            LET pos == airWindow.steps[i].position
                row == airResult.matrix.rows[i]
            IN  /\ InPositionBound(pos[1]) =>
                      /\ row.position_x - PositionBias = pos[1] * PositionScale
                      /\ \A q \in EncodeCoordinates :
                            (InPositionBound(q) /\ q # pos[1])
                                => EncodePosition(q) # row.position_x
                /\ InPositionBound(pos[2]) =>
                      /\ row.position_y - PositionBias = pos[2] * PositionScale
                      /\ \A q \in EncodeCoordinates :
                            (InPositionBound(q) /\ q # pos[2])
                                => EncodePosition(q) # row.position_y

\* the two ends of the bound have been encoded
BoundEndsEncoded ==
    /\ EncodeBuilt
    /\ Len(airWindow.steps) = 1
    /\ airWindow.steps[1].position = <<-49999, 49999>>

\* C29: a window with a coordinate outside the bound of the position
\* encoding, or a velocity outside the range of the velocity encoding, is
\* rejected by the builder.
OutOfRangeRejected ==
    EncodeDone =>
        \A i \in 1..Len(airWindow.steps) :
            LET step == airWindow.steps[i]
            IN  ~(/\ InPositionBound(step.position[1])
                  /\ InPositionBound(step.position[2])
                  /\ InVelocityRange(step.velocity[1])
                  /\ InVelocityRange(step.velocity[2]))
                    => airResult.matrix.panicked

\* C30: for each of the 16 settings of the flags the velocity the
\* constraints expect of a row is (right - left) * 200 + 1000 and
\* (up - down) * 200 + 1000, and the verdict on the row is the same whatever
\* row is taken with it.
ExpectedVelocityFromFlags ==
    EncodeBuilt =>
        \A i \in 1..Len(airResult.matrix.rows) :
            LET row == airResult.matrix.rows[i]
                vel_x == (row.input_right - row.input_left) * MovementSpeed
                             + VelocityOffset
                vel_y == (row.input_up - row.input_down) * MovementSpeed
                             + VelocityOffset
            IN  /\ ExpectedVelX(row) = vel_x
                /\ ExpectedVelY(row) = vel_y
                /\ VelocityConstraint(row)
                      <=> (row.velocity_x = vel_x /\ row.velocity_y = vel_y)
                /\ \A j \in 1..Len(airResult.matrix.rows) :
                      Eval(row, airResult.matrix.rows[j], FALSE)
                          <=> (row.velocity_x = vel_x /\ row.velocity_y = vel_y)

\* a row with the left flag alone and the velocity it stands for
LeftFlagRowAccepted ==
    /\ EncodeBuilt
    /\ Len(airWindow.steps) = 1
    /\ airWindow.steps[1].inputs
         = [left |-> TRUE, right |-> FALSE, up |-> FALSE, down |-> FALSE]
    /\ airWindow.steps[1].velocity = <<-MovementSpeed, 0>>
    /\ VelocityConstraint(airResult.matrix.rows[1])

(***************************************************************************)
(* Properties of the input systems of a tick.                              *)
(***************************************************************************)
\* the factors speed_control_system multiplies the velocity by
SpeedMultipliers ==
    { 0, SpaceMultiplier, ShiftMultiplier, SpaceMultiplier * ShiftMultiplier }

\* the sample's velocity is the velocity of its flags times a speed factor
SpeedModified(step) ==
    /\ step.velocity # FlagVelocity(step.inputs)
    /\ \E k \in SpeedMultipliers :
          step.velocity = << k * FlagVelocity(step.inputs)[1],
                             k * FlagVelocity(step.inputs)[2] >>

\* C31: a task whose window holds a sample with a velocity multiplied by
\* speed_control_system under unchanged flags ends with the constraint
\* violation error, the row of that sample failing the velocity constraint.
SpeedModifiedWindowRejected ==
    \A i \in 1..Len(proofGen.active_tasks) :
        LET task == proofGen.active_tasks[i]
        IN  task.done =>
              \A j \in 1..Len(task.trace.steps) :
                  SpeedModified(task.trace.steps[j]) =>
                      /\ ~VelocityConstraint(EncodeRow(task.trace.steps[j]))
                      /\ task.output =
                           TaskOutput(FALSE, FALSE, ErrConstraint, 0, TRUE, FALSE)

\* a window with a sample at six times the speed, encoded as 200, was rejected
SixfoldSpeedRejected ==
    \E i \in 1..Len(proofGen.active_tasks) :
        /\ proofGen.active_tasks[i].done
        /\ proofGen.active_tasks[i].output.error = ErrConstraint
        /\ \E j \in 1..Len(proofGen.active_tasks[i].trace.steps) :
              /\ proofGen.active_tasks[i].trace.steps[j].velocity = <<0, 1200>>
              /\ proofGen.active_tasks[i].trace.steps[j].inputs.up

(***************************************************************************)
(* Further properties of the composed game.                                *)
(***************************************************************************)
\* C32: at the end of every tick the notice is active exactly when the
\* state is CheatDetected (and Playing has not been requested) or
\* CheatDetected has been requested in the tick; it is never active at the
\* end of a tick of Playing that requests no transition.
FlagOnlyInViolation ==
    pc = "frame" =>
        (cheat.is_active <=>
            \/ gameState = "CheatDetected" /\ nextState # "Playing"
            \/ nextState = "CheatDetected")

(***************************************************************************)
(* Further properties of the collector.                                    *)
(***************************************************************************)
\* C33: every window the collector has sealed holds at least two samples:
\* the queued windows, the windows sealed since the collector was last
\* emptied, and the window popped last.
SealedWindowsHaveTwoSamples ==
    /\ \A k \in 1..Len(collector.completed_traces) :
          Len(collector.completed_traces[k].steps) >= 2
    /\ \A k \in 1..Len(sealedLog) : Len(sealedLog[k].steps) >= 2
    /\ airWindow # NoTrace => Len(airWindow.steps) >= 2

\* after a reset a first window and its continuation, which started with one
\* sample, have been sealed
ContinuationSealedAfterReset ==
    /\ Len(sealedLog) >= 2
    /\ sealedLog[1].is_first_trace_after_reset
    /\ sealedLog[2].steps[1] = LastStep(sealedLog[1])
    /\ Len(sealedLog[2].steps) = 3

\* C34: the queue of sealed windows is empty whenever a system other than
\* proof_generation_system is due, at the end of a tick in particular, and
\* never holds more than the one window the tick has sealed, so the bound
\* of 5 is never reached and no sealed window is dropped.
QueueEmptyAtEndOfTick ==
    /\ pc # "proof" => collector.completed_traces = <<>>
    /\ Len(collector.completed_traces) <= 1
    /\ Len(collector.completed_traces) < MaxCompletedTraces

\* the end of a tick that has sealed a window and handed it to a task
SealedWindowDispatchedInTick ==
    /\ pc = "frame"
    /\ collector.completed_traces = <<>>
    /\ collector.current_trace # NoTrace
    /\ \E i \in 1..Len(proofGen.active_tasks) :
          LastStep(proofGen.active_tasks[i].trace).timestamp = now

(***************************************************************************)
(* Further properties of the pipeline on its own.                          *)
(***************************************************************************)
\* C35: since the proof generator was last reset, the tasks dispatched are
\* the tasks still active plus the successes plus the failures counted, and
\* total_proofs_generated = successful_verifications = completed_count.
DispatchedTasksAccounted ==
    /\ Len(dispatchLog) = Len(proofGen.active_tasks)
                            + proofGen.stats.successful_verifications
                            + proofGen.stats.failed_verifications
    /\ proofGen.stats.total_proofs_generated
         = proofGen.stats.successful_verifications
    /\ proofGen.stats.successful_verifications = proofGen.completed_count

\* of three tasks dispatched one has succeeded, one has failed, one is active
OneOfEachAccounted ==
    /\ Len(dispatchLog) = 3
    /\ Len(proofGen.active_tasks) = 1
    /\ proofGen.stats.successful_verifications = 1
    /\ proofGen.stats.failed_verifications = 1

\* C38: a pass of the poll loop that reads one finished task adds one to
\* failed_verifications and leaves the other counters and the latency
\* totals alone if the task failed, and adds one to total_proofs_generated,
\* successful_verifications and completed_count and the task's two
\* latencies to the totals, leaving failed_verifications alone, if it
\* succeeded.
PollOneOutcomeEffect ==
    [][ (PollPassStep
           /\ Len(FinishedWith(proofGen.active_tasks, TRUE))
                + Len(FinishedWith(proofGen.active_tasks, FALSE)) = 1) =>
          LET before == proofGen
              after == proofGen'
              ok == FinishedWith(proofGen.active_tasks, TRUE) # <<>>
              task == IF ok THEN FinishedWith(proofGen.active_tasks, TRUE)[1]
                      ELSE FinishedWith(proofGen.active_tasks, FALSE)[1]
              one == IF ok THEN 1 ELSE 0
          IN  /\ after.stats.failed_verifications
                   = before.stats.failed_verifications + (1 - one)
              /\ after.stats.total_proofs_generated
                   = before.stats.total_proofs_generated + one
              /\ after.stats.successful_verifications
                   = before.stats.successful_verifications + one
              /\ after.completed_count = before.completed_count + one
              /\ after.stats.total_generation_time_ms
                   = before.stats.total_generation_time_ms
                       + one * task.generation_time_ms
              /\ after.stats.total_verification_time_ms
                   = before.stats.total_verification_time_ms
                       + one * task.output.verification_time_ms
      ]_vars

\* a failure with a verification latency has been polled after a success
\* whose two latencies differ, and the totals are those of the success
FailureLatencyLeftOut ==
    /\ proofGen.stats.failed_verifications = 1
    /\ proofGen.stats.successful_verifications = 1
    /\ proofGen.stats.total_generation_time_ms = 2
    /\ proofGen.stats.total_verification_time_ms = 1
    /\ \E t \in outcomes : ~t.output.ok /\ t.output.verification_time_ms = 2

(***************************************************************************)
(* Further properties of the input systems of a tick.                      *)
(***************************************************************************)
\* no key of speed_control_system is held in the tick
Unmodified == ~input.shift /\ ~input.space /\ ~input.ctrl

\* C36: in a tick with none of the speed keys held, for each of the 16
\* settings of the direction keys, the recorded flags are those of the keys
\* with right overriding left and down overriding up, the velocity is
\* 200 * (right - left), 200 * (up - down) of the recorded flags, and the
\* sample the tick adds to the window satisfies the velocity constraint.
InputVelocityMatchesFlags ==
    /\ (pc \in {"mouse_teleport", "speed_control"}) =>
          velocity = << MovementSpeed * (BoolBit(input.right)
                                           - BoolBit(input.left /\ ~input.right)),
                        MovementSpeed * (BoolBit(input.up /\ ~input.down)
                                           - BoolBit(input.down)) >>
    /\ (pc \in {"movement", "collect", "proof"} /\ Unmodified) =>
          /\ lastInput.right = input.right
          /\ lastInput.left = (input.left /\ ~input.right)
          /\ lastInput.down = input.down
          /\ lastInput.up = (input.up /\ ~input.down)
          /\ velocity[1] = MovementSpeed * (BoolBit(lastInput.right)
                                              - BoolBit(lastInput.left))
          /\ velocity[2] = MovementSpeed * (BoolBit(lastInput.up)
                                              - BoolBit(lastInput.down))
    /\ (pc = "proof" /\ Unmodified) =>
          /\ LastStep(collector.current_trace).velocity = velocity
          /\ LastStep(collector.current_trace).inputs = lastInput
          /\ VelocityConstraint(EncodeRow(LastStep(collector.current_trace)))

\* all four direction keys held: right and down win
AllDirectionsHeldSampled ==
    /\ pc = "proof"
    /\ Unmodified
    /\ input.left /\ input.right /\ input.up /\ input.down
    /\ LastStep(collector.current_trace).velocity = <<MovementSpeed, -MovementSpeed>>

(***************************************************************************)
(* Further properties of one window through the pipeline.                  *)
(***************************************************************************)
\* the constraints on the first n rows and on their adjacent pairs
RealRowsHold(rows, n) ==
    /\ \A i \in 1..n : BooleanConstraint(rows[i]) /\ VelocityConstraint(rows[i])
    /\ \A i \in 1..(n - 1) : TransitionConstraint(rows[i], rows[i + 1])

\* C37: in the matrix of a non-empty window, at the height of the task and
\* at every smaller power of two that holds the window, every padding row
\* satisfies the boolean and the velocity constraint, the pair of the last
\* real row and the first padding row and every pair of padding rows satisfy
\* the transition constraint, and the matrix is accepted exactly when the
\* constraints hold on the real rows and their adjacent pairs; the task
\* reports a constraint violation exactly when they do not.
PaddingNeutral ==
    (AirTaskRan /\ airWindow.steps # <<>> /\ ~AirMatrix.panicked) =>
        LET n == Len(airWindow.steps)
        IN  /\ \A h \in {1, 2, 4, TargetHeight(airWindow)} :
                  h >= n =>
                    LET rows == GenerateMatrix(airWindow, h).rows
                    IN  /\ Len(rows) = h
                        /\ \A i \in (n + 1)..h :
                              /\ BooleanConstraint(rows[i])
                              /\ VelocityConstraint(rows[i])
                        /\ \A i \in n..(h - 1) :
                              TransitionConstraint(rows[i], rows[i + 1])
                        /\ AirAccepts(rows) <=> RealRowsHold(rows, n)
            /\ (airResult.output.error = ErrConstraint)
                  <=> ~RealRowsHold(AirMatrix.rows, n)

\* two samples of a player walking right, the second one moving, padded to
\* eight rows and proved
WalkingWindowPaddedAndProved ==
    /\ pc = "air_done"
    /\ Len(airWindow.steps) = 2
    /\ airWindow.steps[1].position = <<0, 0>>
    /\ airWindow.steps[2].position = <<3, 0>>
    /\ airWindow.steps[2].velocity = <<MovementSpeed, 0>>
    /\ Len(AirMatrix.rows) = MinTraceHeight
    /\ airResult.output.ok

(***************************************************************************)
(* Properties of the self-contained checker.                               *)
(***************************************************************************)
\* C39: check_movement_constraints returns Ok exactly on the matrices the
\* AIR accepts: those whose rows all have boolean flags and the velocity of
\* their flags and whose adjacent pairs, the pair of the last and the first
\* row excepted, satisfy the transition constraint.
CheckerAgreesWithAir ==
    pc = "check_done" =>
        LET rows == airResult.matrix
        IN  /\ (airResult.verdict = "ok") <=> AirAccepts(rows)
            /\ (airResult.verdict = "ok") <=>
                  /\ \A i \in 1..Len(rows) :
                        /\ BooleanConstraint(rows[i])
                        /\ VelocityConstraint(rows[i])
                  /\ \A i \in 1..(Len(rows) - 1) :
                        TransitionConstraint(rows[i], rows[i + 1])

\* a matrix of two rows at different positions is accepted: the pair of the
\* last and the first row is not checked
TwoRowMatrixAccepted ==
    /\ pc = "check_done"
    /\ airResult.verdict = "ok"
    /\ Len(airResult.matrix) = 2
    /\ airResult.matrix[1].position_x # airResult.matrix[2].position_x

====
